---- MODULE Spec2Model ----
(***************************************************************************)
(* Verification model of the vision core of cistem_vision_back:            *)
(*   - GPUManager            (modules/vision/gpu_manager.py)               *)
(*   - CameraProcess sentinel mode and VideoWriterThread                   *)
(*                           (modules/vision/camera_process.py)            *)
(*   - VisionManager supervisor and watchdog (modules/vision/manager.py)   *)
(* Each subsystem has its own specification over the common variables.     *)
(***************************************************************************)
EXTENDS Integers, Sequences, FiniteSets, TLC

\* ------------------------------------------------------------------------
\* Bounds of the model
\* ------------------------------------------------------------------------
MaxGpuOps == 3
MaxFrames == 3
MaxTime == 6
MaxSupTicks == 4
MaxOrphans == 1
MaxEncoderFaults == 2
PreviewFrames == 2
BufCells == 2

\* ------------------------------------------------------------------------
\* Program constants
\* ------------------------------------------------------------------------
\* GPUManager._max_gpu_slots
MaxGpuSlots == 2

\* camera ids used with the GPU manager
GpuCams == {1, 2, 3}

\* PROCESSOR_ID of the registered processors: 1 person counter,
\* 2 intrusion detector, 3 flow cars
Procs == {1, 2, 3}

\* GPUManager.PROCESSOR_GPU_PRIORITY, with .get(processor_id, 0)
ProcessorGpuPriority(p) ==
    IF p = 2 THEN 100 ELSE IF p = 3 THEN 80 ELSE IF p = 1 THEN 60 ELSE 0

VARIABLES
    \* ---- GPUManager ----
    cuda,               \* torch.cuda.is_available()
    gpu_slots_used,     \* GPUManager._gpu_slots_used
    gpu_assigned_cams,  \* GPUManager._gpu_assigned_cams (a list)
    device,             \* per camera: the (device, use_half) its processor got
    gpu_log,            \* calls made so far: <<op, cam, processor, result>>
    \* ---- CameraProcess (one worker) ----
    now,                \* time.time(), in seconds
    stop_event,         \* CameraProcess.stop_event
    wpc,                \* position of the worker's processing thread
    is_intrusion_active,\* CameraProcess.is_intrusion_active
    last_intrusion_time,\* CameraProcess.last_intrusion_time
    pending_file,       \* start_recording locals: <<filename, thumbnail_name>>
    alerts,             \* payloads put on alert_queue: <<status, video file>>
    results,            \* per processed frame: its 'intrusion' flag and its
                        \* current_time
    \* ---- VideoWriterThread ----
    is_recording,       \* VideoWriterThread.is_recording
    current_filename,   \* VideoWriterThread.current_filename
    current_thumbnail,  \* VideoWriterThread.current_thumbnail
    queue,              \* VideoWriterThread.queue
    rec_stop_event,     \* VideoWriterThread.stop_event
    rec_pc,             \* position of the recorder thread in run()
    ffmpeg_process,     \* VideoWriterThread.ffmpeg_process: the file it encodes
    file_frames,        \* per evidence file: frames written to the encoder
    file_state,         \* per evidence file: "none", "open" or "closed"
    issued,             \* every command put on the queue, in order
    consumed,           \* every command the recorder got from the queue
    enc_fault,          \* an encoder open or write has failed
    \* ---- VisionManager ----
    cfg,                \* device_config: per camera its stored configuration
    active_cameras,     \* VisionManager.active_cameras: camera_data per id
    cam_order,          \* the keys of active_cameras, in insertion order
    orphans,            \* per camera: _camera_loop threads still running whose
                        \* camera_data is no longer in active_cameras
    lock,               \* VisionManager.lock: "free" or the thread holding it
    clock,              \* time.time() of the supervisor, in seconds
    wd_pc,              \* position of the watchdog thread
    wd_items,           \* the watchdog's list(active_cameras.items()) still to do
    wd_cam,             \* cam_id of the _restart_camera_internal call
    wd_data,            \* camera_data of the camera the watchdog restarts
    wd_after,           \* where the watchdog continues after the restart
    \* ---- CameraProcess workers, each in its own process ----
    wk_pc,              \* per worker process: "new", "running" or "ready"
    wk_table,           \* per worker process: its copy of the GPU manager's
                        \* _gpu_slots_used and _gpu_assigned_cams
    wk_device,          \* per worker process: the device its processor got
    wk_free_seen,       \* per worker: slots not yet granted to any worker
                        \* when it made its request
    wk_peers,           \* per worker: the workers running and still to make
                        \* their request when it made its own
    \* ---- calls of start_camera whose outcome is recorded ----
    start_log,          \* the last such call: <<cam_id, outcome>>
    \* ---- CameraProcess._process_loop: preview buffer and egress encoder ----
    eg_pc,              \* position of the processing thread in _process_loop
    eg_ffmpeg,          \* its local ffmpeg_process: "none" (None), "live", or
                        \* "dead" (poll() is not None)
    eg_last,            \* what became of the last frame at the egress write
    eg_faults,          \* encoder faults so far (failed starts, deaths)
    frame_id,           \* the frame the loop has in hand
    shm_buf,            \* the shared memory region, cell by cell: the frame
                        \* each cell was last written from
    shm_pos,            \* cells copied so far by _update_shared_memory
    eg_declared,        \* the input shape (width, height) the encoder was
                        \* started with
    eg_shape,           \* the shape of the frame in hand, after the resize
    rd_last,            \* the last copy a reader took of the region
    \* ---- VisionManager._camera_loop: egress encoder ----
    ml_pc,              \* "loop" while the inner loop runs, "stopped" after
    ml_ffmpeg,          \* its local ffmpeg_process, as eg_ffmpeg
    ml_write_errors,    \* its local ffmpeg_write_errors
    ml_orig,            \* (orig_width, orig_height) of the capture
    ml_declared,        \* the input shape its encoder was started with
    ml_shape,           \* the shape of the frame of the last turn, after
                        \* the resize
    ml_last,            \* what became of that frame at the egress write
    \* ---- CameraProcess._capture_loop ----
    cap_pc,             \* position of the capture thread: "connect", "read",
                        \* or "done" when the thread has ended
    cap_last,           \* what its last attempt to open or to read gave
    \* ---- VisionManager._camera_loop: connection and reading ----
    cl_pc,              \* "outer" (at the while of the reconnect loop),
                        \* "inner" (in the frame loop) or "ended"
    cl_stop_flag,       \* camera_data['stop_flag']
    reconnect_attempt,  \* its local reconnect_attempt
    consecutive_errors, \* its local consecutive_errors
    cl_last,            \* what its last attempt to connect or to read gave
    \* ---- the shared memory regions of the preview ----
    sw_pc,              \* per camera: where its CameraProcess is in run()
    sw_gen,             \* per camera: how many times its process was started
    sw_shm,             \* per camera: self.shm of its process: 0 (None), or
                        \* the start the region it created belongs to
    shm_regions,        \* the named regions the system holds
    attach_log,         \* the last attach of a reader: <<cam_id, result>>
    \* ---- IntrusionDetectorProcessor ----
    pd_pc,              \* "new" before __init__, "ready" after
    pd_device,          \* (self.device, self.use_half)
    pd_model_loaded,    \* self.model_loaded
    pd_frame_counter,   \* self._frame_counter
    pd_cached,          \* self._cached_detections: per box its in_zone flag
    pd_current,         \* self.current_intruders
    pd_errors,          \* self._detection_errors
    pd_result,          \* what the last process_frame returned
    pd_call,            \* what the last process_frame did with the detector:
                        \* "none", "skipped", or the outcome of the call
    pd_last_inv,        \* the most recent call of the detector: the
                        \* detections it gave and the result returned for it
    \* ---- CameraProcess.latest_frame, between capture and processing ----
    lf_lock,            \* latest_frame_lock: "free" or the thread holding it
    latest_frame,       \* CameraProcess.latest_frame: 0 (None) or the frame
    cap_frame,          \* the frame the capture thread has just read
    captured,           \* frames read from the source so far; frames are
                        \* numbered in the order they are read
    lf_published,       \* the frame of the last assignment to latest_frame
    pl_pc,              \* the processing thread: "top", or "locked" inside
                        \* its with block
    pl_frame,           \* the local frame of _process_loop after its last
                        \* read: 0 (None) or the copy it took
    pl_prev             \* the same after the read before that one

gpuVars == <<cuda, gpu_slots_used, gpu_assigned_cams, device, gpu_log>>

workerVars == <<now, stop_event, wpc, is_intrusion_active, last_intrusion_time,
                pending_file, alerts, results>>

recVars == <<is_recording, current_filename, current_thumbnail, queue,
             rec_stop_event, rec_pc, ffmpeg_process, file_frames, file_state,
             issued, consumed, enc_fault>>

supVars == <<cfg, active_cameras, cam_order, orphans, lock, clock, wd_pc,
             wd_items, wd_cam, wd_data, wd_after>>

procVars == <<wk_pc, wk_table, wk_device, wk_free_seen, wk_peers>>

\* the variables of the parts added to the three subsystems above
streamVars == <<eg_pc, eg_ffmpeg, eg_last, eg_faults, frame_id, shm_buf,
                shm_pos, eg_declared, eg_shape>>

mlVars == <<ml_pc, ml_ffmpeg, ml_write_errors, ml_orig, ml_declared,
            ml_shape, ml_last>>

capVars == <<cap_pc, cap_last, cl_pc, cl_stop_flag, reconnect_attempt,
             consecutive_errors, cl_last>>

\* the variables of the further parts of the workers
shmVars == <<sw_pc, sw_gen, sw_shm, shm_regions, attach_log>>

detVars == <<pd_pc, pd_device, pd_model_loaded, pd_frame_counter, pd_cached,
             pd_current, pd_errors, pd_result, pd_call, pd_last_inv>>

regVars == <<lf_lock, latest_frame, cap_frame, captured, lf_published,
             pl_pc, pl_frame, pl_prev>>

moreVars == <<capVars, shmVars, detVars, regVars>>

extRest == <<streamVars, rd_last, mlVars, moreVars>>

extVars == <<procVars, start_log, extRest>>

vars == <<gpuVars, workerVars, recVars, supVars, extVars>>

\* ------------------------------------------------------------------------
\* Sequence helpers
\* ------------------------------------------------------------------------
Range(s) == {s[i] : i \in 1..Len(s)}

\* list.remove(x): removes the first occurrence of x
RECURSIVE RemoveFirst(_, _)
RemoveFirst(s, x) ==
    IF s = <<>> THEN <<>>
    ELSE IF Head(s) = x THEN Tail(s)
    ELSE <<Head(s)>> \o RemoveFirst(Tail(s), x)

Max(a, b) == IF a >= b THEN a ELSE b

\* ------------------------------------------------------------------------
\* GPUManager
\* ------------------------------------------------------------------------
NoDevice == <<"none", FALSE>>

HasFreeSlot_OffByOne == gpu_slots_used <= MaxGpuSlots

\* request_gpu_slot: "si hay espacio"
HasFreeSlot == gpu_slots_used < MaxGpuSlots

\* request_gpu_slot: the value returned
RequestResult(c) ==
    IF ~cuda THEN FALSE
    ELSE IF c \in Range(gpu_assigned_cams) THEN TRUE
    ELSE HasFreeSlot

\* request_gpu_slot: the slot counter after the call
RequestSlotsUsed(c) ==
    IF cuda /\ c \notin Range(gpu_assigned_cams) /\ HasFreeSlot
    THEN gpu_slots_used + 1
    ELSE gpu_slots_used

RequestAssigned_Preempt(c) ==
    IF cuda /\ c \notin Range(gpu_assigned_cams)
    THEN IF HasFreeSlot
         THEN Append(gpu_assigned_cams, c)
         ELSE Append(Tail(gpu_assigned_cams), c)
    ELSE gpu_assigned_cams

RequestAssigned_AppendAgain(c) ==
    IF cuda /\ HasFreeSlot
    THEN Append(gpu_assigned_cams, c)
    ELSE gpu_assigned_cams

\* request_gpu_slot: the assigned list after the call
RequestAssigned(c) ==
    IF cuda /\ c \notin Range(gpu_assigned_cams) /\ HasFreeSlot
    THEN Append(gpu_assigned_cams, c)
    ELSE gpu_assigned_cams

ReleaseSlotsUsed_Unconditional(c) == Max(0, gpu_slots_used - 1)

\* release_gpu_slot: the slot counter after the call
ReleaseSlotsUsed(c) ==
    IF c \in Range(gpu_assigned_cams)
    THEN Max(0, gpu_slots_used - 1)
    ELSE gpu_slots_used

\* release_gpu_slot: the assigned list after the call
ReleaseAssigned(c) ==
    IF c \in Range(gpu_assigned_cams)
    THEN RemoveFirst(gpu_assigned_cams, c)
    ELSE gpu_assigned_cams

\* get_recommended_device: the tuple returned for a request result
RecommendedDevice(granted) ==
    IF granted THEN <<"cuda:0", TRUE>> ELSE <<"cpu", FALSE>>

GpuInit ==
    /\ cuda \in BOOLEAN
    /\ gpu_slots_used = 0
    /\ gpu_assigned_cams = <<>>
    /\ device = [c \in GpuCams |-> NoDevice]
    /\ gpu_log = <<>>

request_gpu_slot(c, p) ==
    /\ Len(gpu_log) < MaxGpuOps
    /\ gpu_slots_used' = RequestSlotsUsed(c)
    /\ gpu_assigned_cams' = RequestAssigned(c)
    /\ gpu_log' = Append(gpu_log, <<"request", c, p, RequestResult(c)>>)
    /\ UNCHANGED <<cuda, device, extVars, workerVars, recVars, supVars>>

release_gpu_slot(c) ==
    /\ Len(gpu_log) < MaxGpuOps
    /\ gpu_slots_used' = ReleaseSlotsUsed(c)
    /\ gpu_assigned_cams' = ReleaseAssigned(c)
    /\ gpu_log' = Append(gpu_log, <<"release", c, 0, FALSE>>)
    /\ UNCHANGED <<cuda, device, extVars, workerVars, recVars, supVars>>

get_recommended_device(c, p) ==
    /\ Len(gpu_log) < MaxGpuOps
    /\ gpu_slots_used' = RequestSlotsUsed(c)
    /\ gpu_assigned_cams' = RequestAssigned(c)
    /\ device' = [device EXCEPT ![c] = RecommendedDevice(RequestResult(c))]
    /\ gpu_log' = Append(gpu_log, <<"device", c, p, RequestResult(c)>>)
    /\ UNCHANGED <<cuda, extVars, workerVars, recVars, supVars>>


\* ------------------------------------------------------------------------
\* VideoWriterThread (evidence recorder) and CameraProcess sentinel mode
\* ------------------------------------------------------------------------
\* CameraProcess.cooldown_seconds
CooldownSeconds == 5

\* None, for a file name or an encoder handle
NoFile == -1

\* evidence files are named after the second their recording starts in
Files == 0..MaxTime

Cmd(t, a) == [type |-> t, arg |-> a]

Result(flag, t) == [intrusion |-> flag, at |-> t]

\* the status field of the alerts sent so far
AlertStatuses == [i \in 1..Len(alerts) |-> alerts[i][1]]

RECURSIVE CountOf(_, _)
CountOf(s, x) ==
    IF s = <<>> THEN 0
    ELSE (IF Head(s) = x THEN 1 ELSE 0) + CountOf(Tail(s), x)

\* add_frame: the queue after the call, for the flag value rec_flag
AddFrame(q, rec_flag, frame) ==
    IF rec_flag THEN Append(q, Cmd("FRAME", frame)) ELSE q

\* _close_writer: the state of the evidence files after the call
CloseWriterFiles ==
    IF ffmpeg_process # NoFile
    THEN [file_state EXCEPT ![ffmpeg_process] = "closed"]
    ELSE file_state

EventEnds_DoubleCooldown(t) == t - last_intrusion_time > 2 * CooldownSeconds

\* _handle_sentinel_mode: the cooldown test of a frame without intrusion
EventEnds(t) == t - last_intrusion_time > CooldownSeconds

WorkerInit ==
    /\ now = 0
    /\ stop_event = FALSE
    /\ wpc = "loop"
    /\ is_intrusion_active = FALSE
    /\ last_intrusion_time = 0
    /\ pending_file = <<NoFile, NoFile>>
    /\ alerts = <<>>
    /\ results = <<>>

RecInit ==
    /\ is_recording = FALSE
    /\ current_filename = NoFile
    /\ current_thumbnail = NoFile
    /\ queue = <<>>
    /\ rec_stop_event = FALSE
    /\ rec_pc = "check"
    /\ ffmpeg_process = NoFile
    /\ file_frames = [f \in Files |-> <<>>]
    /\ file_state = [f \in Files |-> "none"]
    /\ issued = <<>>
    /\ consumed = <<>>
    /\ enc_fault = FALSE

\* time passes
Tick ==
    /\ now < MaxTime
    /\ now' = now + 1
    /\ UNCHANGED <<extVars, supVars, gpuVars, stop_event, wpc, is_intrusion_active,
                   last_intrusion_time, pending_file, alerts, results, recVars>>

\* the frame handled by the call in progress
CurFrame == Len(results)

\* _handle_sentinel_mode, is_intrusion and no event active: the event starts
\* and start_recording runs up to its queue.put(START)
SentinelNewIntrusion ==
    /\ wpc = "loop" /\ ~stop_event
    /\ Len(results) < MaxFrames
    /\ ~is_intrusion_active
    /\ results' = Append(results, Result(TRUE, now))
    /\ last_intrusion_time' = now
    /\ is_intrusion_active' = TRUE
    /\ IF is_recording
       THEN \* start_recording returns (None, None): no alert; add_frame
            /\ queue' = Append(queue, Cmd("FRAME", Len(results) + 1))
            /\ issued' = Append(issued, Cmd("FRAME", Len(results) + 1))
            /\ UNCHANGED <<pending_file, wpc>>
       ELSE \E thumb_ok \in BOOLEAN :
            /\ pending_file' = <<now, IF thumb_ok THEN now ELSE NoFile>>
            /\ queue' = Append(queue, Cmd("START", now))
            /\ issued' = Append(issued, Cmd("START", now))
            /\ wpc' = "sr_flag"
    /\ UNCHANGED <<extVars, supVars, gpuVars, now, stop_event, alerts, is_recording,
                   current_filename, current_thumbnail, rec_stop_event, rec_pc,
                   ffmpeg_process, file_frames, file_state, consumed, enc_fault>>

StartRecordingFlag_NoFlag ==
    /\ wpc = "sr_flag"
    /\ is_recording' = is_recording
    /\ current_filename' = pending_file[1]
    /\ current_thumbnail' = pending_file[2]
    /\ alerts' = Append(alerts, <<"detected", pending_file[1]>>)
    /\ queue' = AddFrame(queue, TRUE, CurFrame)
    /\ issued' = AddFrame(issued, TRUE, CurFrame)
    /\ wpc' = "loop"
    /\ UNCHANGED <<extVars, supVars, gpuVars, now, stop_event, is_intrusion_active,
                   last_intrusion_time, pending_file, results,
                   rec_stop_event, rec_pc, ffmpeg_process, file_frames,
                   file_state, consumed, enc_fault>>

\* start_recording after its queue.put: the flag and names are set, then the
\* caller sends the 'detected' alert and add_frame enqueues the frame
StartRecordingFlag ==
    /\ wpc = "sr_flag"
    /\ is_recording' = TRUE
    /\ current_filename' = pending_file[1]
    /\ current_thumbnail' = pending_file[2]
    /\ alerts' = Append(alerts, <<"detected", pending_file[1]>>)
    /\ queue' = AddFrame(queue, TRUE, CurFrame)
    /\ issued' = AddFrame(issued, TRUE, CurFrame)
    /\ wpc' = "loop"
    /\ UNCHANGED <<extVars, supVars, gpuVars, now, stop_event, is_intrusion_active,
                   last_intrusion_time, pending_file, results,
                   rec_stop_event, rec_pc, ffmpeg_process, file_frames,
                   file_state, consumed, enc_fault>>

SentinelStillIntrusion_Realert ==
    /\ wpc = "loop" /\ ~stop_event
    /\ Len(results) < MaxFrames
    /\ is_intrusion_active
    /\ results' = Append(results, Result(TRUE, now))
    /\ last_intrusion_time' = now
    /\ alerts' = Append(alerts, <<"detected", current_filename>>)
    /\ queue' = AddFrame(queue, is_recording, Len(results) + 1)
    /\ issued' = AddFrame(issued, is_recording, Len(results) + 1)
    /\ UNCHANGED <<extVars, supVars, gpuVars, now, stop_event, wpc, is_intrusion_active,
                   pending_file, is_recording, current_filename,
                   current_thumbnail, rec_stop_event, rec_pc, ffmpeg_process,
                   file_frames, file_state, consumed, enc_fault>>

SentinelStillIntrusion_NoRefresh ==
    /\ wpc = "loop" /\ ~stop_event
    /\ Len(results) < MaxFrames
    /\ is_intrusion_active
    /\ results' = Append(results, Result(TRUE, now))
    /\ last_intrusion_time' = last_intrusion_time
    /\ queue' = AddFrame(queue, is_recording, Len(results) + 1)
    /\ issued' = AddFrame(issued, is_recording, Len(results) + 1)
    /\ UNCHANGED <<extVars, supVars, gpuVars, now, stop_event, wpc, is_intrusion_active,
                   pending_file, alerts, is_recording, current_filename,
                   current_thumbnail, rec_stop_event, rec_pc, ffmpeg_process,
                   file_frames, file_state, consumed, enc_fault>>

\* _handle_sentinel_mode, is_intrusion while the event is active
SentinelStillIntrusion ==
    /\ wpc = "loop" /\ ~stop_event
    /\ Len(results) < MaxFrames
    /\ is_intrusion_active
    /\ results' = Append(results, Result(TRUE, now))
    /\ last_intrusion_time' = now
    /\ queue' = AddFrame(queue, is_recording, Len(results) + 1)
    /\ issued' = AddFrame(issued, is_recording, Len(results) + 1)
    /\ UNCHANGED <<extVars, supVars, gpuVars, now, stop_event, wpc, is_intrusion_active,
                   pending_file, alerts, is_recording, current_filename,
                   current_thumbnail, rec_stop_event, rec_pc, ffmpeg_process,
                   file_frames, file_state, consumed, enc_fault>>

SentinelNoIntrusion_AlwaysFrame ==
    /\ wpc = "loop" /\ ~stop_event
    /\ Len(results) < MaxFrames
    /\ ~(is_intrusion_active /\ EventEnds(now))
    /\ results' = Append(results, Result(FALSE, now))
    /\ queue' = AddFrame(queue, TRUE, Len(results) + 1)
    /\ issued' = AddFrame(issued, TRUE, Len(results) + 1)
    /\ UNCHANGED <<extVars, supVars, gpuVars, now, stop_event, wpc, is_intrusion_active,
                   last_intrusion_time, pending_file, alerts, is_recording,
                   current_filename, current_thumbnail, rec_stop_event, rec_pc,
                   ffmpeg_process, file_frames, file_state, consumed, enc_fault>>

\* _handle_sentinel_mode, no intrusion, and the event does not end
SentinelNoIntrusion ==
    /\ wpc = "loop" /\ ~stop_event
    /\ Len(results) < MaxFrames
    /\ ~(is_intrusion_active /\ EventEnds(now))
    /\ results' = Append(results, Result(FALSE, now))
    /\ queue' = AddFrame(queue, is_intrusion_active /\ is_recording,
                         Len(results) + 1)
    /\ issued' = AddFrame(issued, is_intrusion_active /\ is_recording,
                          Len(results) + 1)
    /\ UNCHANGED <<extVars, supVars, gpuVars, now, stop_event, wpc, is_intrusion_active,
                   last_intrusion_time, pending_file, alerts, is_recording,
                   current_filename, current_thumbnail, rec_stop_event, rec_pc,
                   ffmpeg_process, file_frames, file_state, consumed, enc_fault>>

\* _handle_sentinel_mode, no intrusion for longer than the cooldown: the event
\* ends and stop_recording runs up to its is_recording = False
SentinelCooldownOver ==
    /\ wpc = "loop" /\ ~stop_event
    /\ Len(results) < MaxFrames
    /\ is_intrusion_active
    /\ EventEnds(now)
    /\ results' = Append(results, Result(FALSE, now))
    /\ is_intrusion_active' = FALSE
    /\ IF is_recording
       THEN /\ is_recording' = FALSE
            /\ wpc' = "stop_put"
            /\ UNCHANGED alerts
       ELSE \* stop_recording returns at once; the alert is sent
            /\ alerts' = Append(alerts, <<"finished", NoFile>>)
            /\ UNCHANGED <<is_recording, wpc>>
    /\ UNCHANGED <<extVars, supVars, gpuVars, now, stop_event, last_intrusion_time, pending_file,
                   current_filename, current_thumbnail, queue, rec_stop_event,
                   rec_pc, ffmpeg_process, file_frames, file_state, issued,
                   consumed, enc_fault>>

StopRecordingPut_NoAlert ==
    /\ wpc = "stop_put"
    /\ queue' = Append(queue, Cmd("STOP", 0))
    /\ issued' = Append(issued, Cmd("STOP", 0))
    /\ alerts' = alerts
    /\ wpc' = "loop"
    /\ UNCHANGED <<extVars, supVars, gpuVars, now, stop_event, is_intrusion_active,
                   last_intrusion_time, pending_file, results,
                   is_recording, current_filename, current_thumbnail,
                   rec_stop_event, rec_pc, ffmpeg_process, file_frames,
                   file_state, consumed, enc_fault>>

\* stop_recording after the flag is cleared: queue.put(STOP), then the caller
\* sends the 'finished' alert
StopRecordingPut ==
    /\ wpc = "stop_put"
    /\ queue' = Append(queue, Cmd("STOP", 0))
    /\ issued' = Append(issued, Cmd("STOP", 0))
    /\ alerts' = Append(alerts, <<"finished", NoFile>>)
    /\ wpc' = "loop"
    /\ UNCHANGED <<extVars, supVars, gpuVars, now, stop_event, is_intrusion_active,
                   last_intrusion_time, pending_file, results,
                   is_recording, current_filename, current_thumbnail,
                   rec_stop_event, rec_pc, ffmpeg_process, file_frames,
                   file_state, consumed, enc_fault>>

\* CameraProcess.stop()
Stop ==
    /\ ~stop_event
    /\ wpc # "terminated"
    /\ stop_event' = TRUE
    /\ UNCHANGED <<extVars, supVars, gpuVars, now, wpc, is_intrusion_active, last_intrusion_time,
                   pending_file, alerts, results, recVars>>

\* _process_loop sees the stop flag and returns to run()
ProcessLoopExit ==
    /\ wpc = "loop" /\ stop_event
    /\ wpc' = "finally"
    /\ UNCHANGED <<extVars, supVars, gpuVars, now, stop_event, is_intrusion_active,
                   last_intrusion_time, pending_file, alerts, results, recVars>>

\* run(), finally: video_thread.stop_event.set()
RunFinally ==
    /\ wpc = "finally"
    /\ rec_stop_event' = TRUE
    /\ wpc' = "join"
    /\ UNCHANGED <<extVars, supVars, gpuVars, now, stop_event, is_intrusion_active,
                   last_intrusion_time, pending_file, alerts, results, is_recording, current_filename,
                   current_thumbnail, queue, rec_pc, ffmpeg_process,
                   file_frames, file_state, issued, consumed, enc_fault>>

\* run(), finally: video_thread.join() returns and the process ends
RunJoin ==
    /\ wpc = "join"
    /\ rec_pc = "terminated"
    /\ wpc' = "terminated"
    /\ UNCHANGED <<extVars, supVars, gpuVars, now, stop_event, is_intrusion_active,
                   last_intrusion_time, pending_file, alerts, results, recVars>>

RecLoopCheck_NoFinalClose ==
    /\ rec_pc = "check"
    /\ IF rec_stop_event
       THEN /\ UNCHANGED <<file_state, ffmpeg_process>>
            /\ rec_pc' = "terminated"
       ELSE /\ rec_pc' = "get"
            /\ UNCHANGED <<file_state, ffmpeg_process>>
    /\ UNCHANGED <<extVars, supVars, gpuVars, workerVars, is_recording, current_filename,
                   current_thumbnail, queue, rec_stop_event, file_frames,
                   issued, consumed, enc_fault>>

\* VideoWriterThread.run: the loop condition; when the stop event is set the
\* loop ends and the trailing _close_writer runs
RecLoopCheck ==
    /\ rec_pc = "check"
    /\ IF rec_stop_event
       THEN /\ file_state' = CloseWriterFiles
            /\ ffmpeg_process' = NoFile
            /\ rec_pc' = "terminated"
       ELSE /\ rec_pc' = "get"
            /\ UNCHANGED <<file_state, ffmpeg_process>>
    /\ UNCHANGED <<extVars, supVars, gpuVars, workerVars, is_recording, current_filename,
                   current_thumbnail, queue, rec_stop_event, file_frames,
                   issued, consumed, enc_fault>>

\* VideoWriterThread.run: queue.get times out on an empty queue; the encoder is
\* closed when the recording flag is down
RecQueueEmpty ==
    /\ rec_pc = "get"
    /\ queue = <<>>
    /\ IF ~is_recording /\ ffmpeg_process # NoFile
       THEN /\ file_state' = CloseWriterFiles
            /\ ffmpeg_process' = NoFile
       ELSE UNCHANGED <<file_state, ffmpeg_process>>
    /\ rec_pc' = "check"
    /\ UNCHANGED <<extVars, supVars, gpuVars, workerVars, is_recording, current_filename,
                   current_thumbnail, queue, rec_stop_event, file_frames,
                   issued, consumed, enc_fault>>

\* VideoWriterThread.run: a START is taken; the previous encoder is closed and
\* _start_ffmpeg_writer opens the new one, or returns None
RecStart ==
    /\ rec_pc = "get"
    /\ queue # <<>> /\ Head(queue).type = "START"
    /\ queue' = Tail(queue)
    /\ consumed' = Append(consumed, Head(queue))
    /\ \E ok \in BOOLEAN :
         /\ ffmpeg_process' = IF ok THEN Head(queue).arg ELSE NoFile
         /\ file_state' = IF ok
                          THEN [CloseWriterFiles EXCEPT ![Head(queue).arg] = "open"]
                          ELSE CloseWriterFiles
         /\ file_frames' = IF ok
                           THEN [file_frames EXCEPT ![Head(queue).arg] = <<>>]
                           ELSE file_frames
         /\ enc_fault' = (enc_fault \/ ~ok)
    /\ rec_pc' = "check"
    /\ UNCHANGED <<extVars, supVars, gpuVars, workerVars, is_recording, current_filename,
                   current_thumbnail, rec_stop_event, issued>>

\* VideoWriterThread.run: a FRAME is taken and written to the open encoder; a
\* failed write closes the encoder
RecFrame ==
    /\ rec_pc = "get"
    /\ queue # <<>> /\ Head(queue).type = "FRAME"
    /\ queue' = Tail(queue)
    /\ consumed' = Append(consumed, Head(queue))
    /\ IF ffmpeg_process # NoFile
       THEN \E ok \in BOOLEAN :
              IF ok
              THEN /\ file_frames' = [file_frames EXCEPT ![ffmpeg_process] =
                                         Append(@, Head(queue).arg)]
                   /\ UNCHANGED <<ffmpeg_process, file_state, enc_fault>>
              ELSE /\ file_state' = CloseWriterFiles
                   /\ ffmpeg_process' = NoFile
                   /\ enc_fault' = TRUE
                   /\ UNCHANGED file_frames
       ELSE UNCHANGED <<ffmpeg_process, file_frames, file_state, enc_fault>>
    /\ rec_pc' = "check"
    /\ UNCHANGED <<extVars, supVars, gpuVars, workerVars, is_recording, current_filename,
                   current_thumbnail, rec_stop_event, issued>>

RecStop_NoClose ==
    /\ rec_pc = "get"
    /\ queue # <<>> /\ Head(queue).type = "STOP"
    /\ queue' = Tail(queue)
    /\ consumed' = Append(consumed, Head(queue))
    /\ file_state' = file_state
    /\ ffmpeg_process' = ffmpeg_process
    /\ rec_pc' = "check"
    /\ UNCHANGED <<extVars, supVars, gpuVars, workerVars, is_recording, current_filename,
                   current_thumbnail, rec_stop_event, file_frames, issued,
                   enc_fault>>

\* VideoWriterThread.run: a STOP is taken and the encoder is closed
RecStop ==
    /\ rec_pc = "get"
    /\ queue # <<>> /\ Head(queue).type = "STOP"
    /\ queue' = Tail(queue)
    /\ consumed' = Append(consumed, Head(queue))
    /\ file_state' = CloseWriterFiles
    /\ ffmpeg_process' = NoFile
    /\ rec_pc' = "check"
    /\ UNCHANGED <<extVars, supVars, gpuVars, workerVars, is_recording, current_filename,
                   current_thumbnail, rec_stop_event, file_frames, issued,
                   enc_fault>>


\* ------------------------------------------------------------------------
\* VisionManager: start_camera, stop_camera, the camera threads, the watchdog
\* ------------------------------------------------------------------------
\* camera ids known to the supervisor
SupCams == {1, 2}

\* seconds the watchdog sleeps between two passes
WatchdogInterval == 10

\* seconds without a frame after which the watchdog restarts a camera
StaleSeconds == 30

\* a processor id that is not in AVAILABLE_PROCESSORS
UnknownProc == 9

\* processor_id=None
NoProc == 0

\* the processor_id arguments tried
ProcArgs == {NoProc, 2, UnknownProc}

\* the configurations a camera can have in device_config
CfgOk == [exists |-> TRUE, active_processor |-> 1, rtsp |-> TRUE]
CfgMissing == [exists |-> FALSE, active_processor |-> NoProc, rtsp |-> FALSE]
CfgNoUrl == [exists |-> TRUE, active_processor |-> 1, rtsp |-> FALSE]
CfgBadProc == [exists |-> TRUE, active_processor |-> UnknownProc, rtsp |-> TRUE]

\* the value of a key that is not in active_cameras
NoCam == [processor_id |-> NoProc, stop_flag |-> FALSE, alive |-> FALSE,
          last_frame_time |-> 0]

\* is_camera_active
is_camera_active(c) == c \in Range(cam_order)

\* get_processor_class: the processor id is registered
get_processor_class(p) == p \in Procs

\* _camera_loop threads of camera c that are still running
RunningLoops(c) ==
    (IF is_camera_active(c) /\ active_cameras[c].alive THEN 1 ELSE 0)
    + orphans[c]

SupInit ==
    /\ cfg \in {f \in [SupCams -> {CfgOk, CfgMissing, CfgNoUrl, CfgBadProc}] :
                    f[1] = CfgOk}
    /\ active_cameras = [c \in SupCams |-> NoCam]
    /\ cam_order = <<>>
    /\ orphans = [c \in SupCams |-> 0]
    /\ lock = "free"
    /\ clock = 0
    /\ wd_pc = "sleep"
    /\ wd_items = <<>>
    /\ wd_cam = 0
    /\ wd_data = NoCam
    /\ wd_after = "none"

\* start_camera: the processor id used, after the default from the config
StartProcessor(c, p) == IF p = NoProc THEN cfg[c].active_processor ELSE p

StartAccepted_NoActiveCheck(c, p) ==
    /\ cfg[c].exists
    /\ get_processor_class(StartProcessor(c, p))
    /\ cfg[c].rtsp

StartAccepted_NoUrlCheck(c, p) ==
    /\ ~is_camera_active(c)
    /\ cfg[c].exists
    /\ get_processor_class(StartProcessor(c, p))

\* start_camera: every check before the camera_data is built passes
StartAccepted(c, p) ==
    /\ ~is_camera_active(c)
    /\ cfg[c].exists
    /\ get_processor_class(StartProcessor(c, p))
    /\ cfg[c].rtsp

\* start_camera, called by a client ("api") or by the watchdog from
\* _restart_camera_internal; the whole body runs under self.lock
StartCameraBody(who, c, p) ==
    /\ lock = "free"
    /\ \/ who = "api"
       \/ who = "watchdog" /\ wd_pc = "restart_start" /\ c = wd_cam
                           /\ p = wd_data.processor_id
    /\ IF StartAccepted(c, p)
       THEN /\ gpu_slots_used' = RequestSlotsUsed(c)
            /\ gpu_assigned_cams' = RequestAssigned(c)
            /\ device' = [device EXCEPT ![c] = RecommendedDevice(RequestResult(c))]
            /\ active_cameras' = [active_cameras EXCEPT ![c] =
                   [processor_id |-> StartProcessor(c, p), stop_flag |-> FALSE,
                    alive |-> TRUE, last_frame_time |-> clock]]
            /\ cam_order' = Append(cam_order, c)
       ELSE UNCHANGED <<gpu_slots_used, gpu_assigned_cams, device,
                        active_cameras, cam_order>>
    /\ IF who = "api"
       THEN UNCHANGED <<wd_pc, wd_items>>
       ELSE \* back in the watchdog's pass, which still holds the items list
            /\ wd_pc' = IF wd_after = "stale" THEN "stale" ELSE "check"
            /\ wd_items' = IF wd_after = "stale" THEN wd_items ELSE Tail(wd_items)
    /\ UNCHANGED <<cuda, gpu_log, procVars, extRest, workerVars, recVars, cfg, orphans, lock,
                   clock, wd_cam, wd_data, wd_after>>

\* start_camera: what the call answers; it returns True when the camera was
\* started, and False with one of four messages otherwise
StartOutcome(c, p) ==
    IF is_camera_active(c) THEN "active"
    ELSE IF ~cfg[c].exists THEN "no_config"
    ELSE IF ~get_processor_class(StartProcessor(c, p)) THEN "no_processor"
    ELSE IF ~cfg[c].rtsp THEN "no_url"
    ELSE "started"

start_camera(who, c, p) ==
    /\ StartCameraBody(who, c, p)
    /\ UNCHANGED start_log

\* start_camera called by a client, with its outcome recorded
start_camera_logged(c, p) ==
    /\ StartCameraBody("api", c, p)
    /\ start_log' = <<c, StartOutcome(c, p)>>

\* stop_camera, called by a client; the whole body runs under self.lock. The
\* join(timeout=5.0) returns when the thread has ended or after the timeout,
\* with the thread still running
stop_camera(c) ==
    /\ lock = "free"
    /\ IF ~is_camera_active(c)
       THEN UNCHANGED <<active_cameras, cam_order, orphans>>
       ELSE /\ \E joined \in BOOLEAN :
                 /\ ~joined => active_cameras[c].alive /\ orphans[c] < MaxOrphans
                 /\ orphans' = IF joined THEN orphans
                               ELSE [orphans EXCEPT ![c] = @ + 1]
            /\ active_cameras' = [active_cameras EXCEPT ![c] = NoCam]
            /\ cam_order' = RemoveFirst(cam_order, c)
    /\ UNCHANGED <<gpuVars, extVars, workerVars, recVars, cfg, lock, clock, wd_pc,
                   wd_items, wd_cam, wd_data, wd_after>>

\* _camera_loop: a frame is read; last_frame_time is refreshed
CameraLoopFrame(c) ==
    /\ is_camera_active(c)
    /\ active_cameras[c].alive
    /\ ~active_cameras[c].stop_flag
    /\ active_cameras[c].last_frame_time # clock
    /\ active_cameras' = [active_cameras EXCEPT ![c].last_frame_time = clock]
    /\ UNCHANGED <<gpuVars, extVars, workerVars, recVars, cfg, cam_order, orphans, lock,
                   clock, wd_pc, wd_items, wd_cam, wd_data, wd_after>>

\* _camera_loop: the thread of a registered camera ends on its own, the
\* reconnect attempts being used up
CameraLoopDies(c) ==
    /\ is_camera_active(c)
    /\ active_cameras[c].alive
    /\ active_cameras' = [active_cameras EXCEPT ![c].alive = FALSE]
    /\ UNCHANGED <<gpuVars, extVars, workerVars, recVars, cfg, cam_order, orphans, lock,
                   clock, wd_pc, wd_items, wd_cam, wd_data, wd_after>>

\* _camera_loop: a thread whose stop_flag was set sees it and ends
CameraLoopStops(c) ==
    /\ orphans[c] > 0
    /\ orphans' = [orphans EXCEPT ![c] = @ - 1]
    /\ UNCHANGED <<gpuVars, extVars, workerVars, recVars, cfg, active_cameras, cam_order,
                   lock, clock, wd_pc, wd_items, wd_cam, wd_data, wd_after>>

\* time passes for the supervisor
SupTick ==
    /\ clock < MaxSupTicks * WatchdogInterval
    /\ clock' = clock + WatchdogInterval
    /\ UNCHANGED <<gpuVars, extVars, workerVars, recVars, cfg, active_cameras, cam_order,
                   orphans, lock, wd_pc, wd_items, wd_cam, wd_data, wd_after>>

\* _watchdog_loop: after the sleep, the lock is taken and the items listed
WatchdogBeginPass ==
    /\ wd_pc = "sleep"
    /\ lock = "free"
    /\ lock' = "watchdog"
    /\ wd_items' = cam_order
    /\ wd_pc' = "check"
    /\ UNCHANGED <<gpuVars, extVars, workerVars, recVars, cfg, active_cameras, cam_order,
                   orphans, clock, wd_cam, wd_data, wd_after>>

\* _watchdog_loop: the thread check of the next item; a dead thread leads to
\* _restart_camera_internal
WatchdogCheckThread ==
    /\ wd_pc = "check"
    /\ wd_items # <<>>
    /\ IF ~active_cameras[Head(wd_items)].alive
       THEN /\ wd_pc' = "restart"
            /\ wd_cam' = Head(wd_items)
            /\ wd_after' = "stale"
       ELSE /\ wd_pc' = "stale"
            /\ UNCHANGED <<wd_cam, wd_after>>
    /\ wd_data' = active_cameras[Head(wd_items)]
    /\ UNCHANGED <<gpuVars, extVars, workerVars, recVars, cfg, active_cameras, cam_order,
                   orphans, lock, clock, wd_items>>

\* the camera_data the watchdog's item refers to
WatchdogItemData ==
    IF wd_after = "stale" THEN wd_data ELSE active_cameras[Head(wd_items)]

\* _watchdog_loop: the frame-age check of the item; a stale camera leads to
\* _restart_camera_internal, otherwise the next item is taken
WatchdogCheckStale ==
    /\ wd_pc = "stale"
    /\ IF clock - WatchdogItemData.last_frame_time > StaleSeconds
       THEN /\ wd_pc' = "restart"
            /\ wd_cam' = Head(wd_items)
            /\ wd_data' = WatchdogItemData
            /\ wd_after' = "next"
            /\ UNCHANGED wd_items
       ELSE /\ wd_pc' = "check"
            /\ wd_items' = Tail(wd_items)
            /\ wd_after' = "none"
            /\ UNCHANGED <<wd_cam, wd_data>>
    /\ UNCHANGED <<gpuVars, extVars, workerVars, recVars, cfg, active_cameras, cam_order,
                   orphans, lock, clock>>

\* _restart_camera_internal up to its call of start_camera: the stop flag is
\* set, one second is slept, and the entry is deleted; the old thread has
\* ended by then or is still running
WatchdogRestartDelete ==
    /\ wd_pc = "restart"
    /\ IF is_camera_active(wd_cam)
       THEN /\ \E ended \in BOOLEAN :
                 /\ ~ended => active_cameras[wd_cam].alive
                              /\ orphans[wd_cam] < MaxOrphans
                 /\ orphans' = IF ended THEN orphans
                               ELSE [orphans EXCEPT ![wd_cam] = @ + 1]
            /\ active_cameras' = [active_cameras EXCEPT ![wd_cam] = NoCam]
            /\ cam_order' = RemoveFirst(cam_order, wd_cam)
            /\ wd_pc' = "restart_start"
            /\ UNCHANGED wd_items
       ELSE /\ wd_pc' = IF wd_after = "stale" THEN "stale" ELSE "check"
            /\ wd_items' = IF wd_after = "stale" THEN wd_items ELSE Tail(wd_items)
            /\ UNCHANGED <<active_cameras, cam_order, orphans>>
    /\ UNCHANGED <<gpuVars, extVars, workerVars, recVars, cfg, lock, clock, wd_cam,
                   wd_data, wd_after>>

\* _watchdog_loop: the pass is over, the lock is released
WatchdogEndPass ==
    /\ wd_pc = "check"
    /\ wd_items = <<>>
    /\ lock' = "free"
    /\ wd_pc' = "sleep"
    /\ wd_after' = "none"
    /\ UNCHANGED <<gpuVars, extVars, workerVars, recVars, cfg, active_cameras, cam_order,
                   orphans, clock, wd_items, wd_cam, wd_data>>

\* ------------------------------------------------------------------------
\* Properties of the supervisor
\* ------------------------------------------------------------------------
\* camera c is registered and its thread has ended
WorkerDead(c) == is_camera_active(c) /\ ~active_cameras[c].alive

\* camera c is registered with a running thread
WorkerLive(c) == is_camera_active(c) /\ active_cameras[c].alive

\* camera c was taken out of the table by a client's stop_camera
StoppedByClient(c) ==
    ~is_camera_active(c) /\ ~(wd_pc = "restart_start" /\ wd_cam = c)

\* C3: when the worker of an active camera has died, the watchdog restarts
\* it: the camera is eventually active again with a live worker (unless a
\* client stops it first).
C3_WatchdogRestores ==
    \A c \in SupCams : WorkerDead(c) ~> (WorkerLive(c) \/ StoppedByClient(c))

\* C4: at most one worker loop of a camera is running at any time.
C4_SingleWorkerLoop == \A c \in SupCams : RunningLoops(c) <= 1

\* ------------------------------------------------------------------------
\* Properties of the GPU manager
\* ------------------------------------------------------------------------
\* C2: the number of cameras holding a GPU slot never exceeds the capacity.
C2_SlotsWithinCapacity ==
    /\ Len(gpu_assigned_cams) <= MaxGpuSlots
    /\ Cardinality(Range(gpu_assigned_cams)) <= MaxGpuSlots

C2_Witness ==
    /\ Len(gpu_assigned_cams) = MaxGpuSlots
    /\ Len(gpu_log) = 3
    /\ gpu_log[3][1] = "request"
    /\ gpu_log[3][4] = FALSE
    /\ gpu_log[3][2] \notin Range(gpu_assigned_cams)

\* the calls so far are three requests by distinct cameras running the person
\* counter, the flow-cars processor and the intrusion detector, in that order
PersonVehicleIntrusion ==
    /\ Len(gpu_log) = 3
    /\ \A i \in 1..3 : gpu_log[i][1] \in {"request", "device"}
    /\ gpu_log[3][1] = "device"
    /\ gpu_log[1][3] = 1 /\ gpu_log[2][3] = 3 /\ gpu_log[3][3] = 2
    /\ Cardinality({gpu_log[1][2], gpu_log[2][2], gpu_log[3][2]}) = 3

\* a request step leaves every holder in the table
RequestKeepsHolders ==
    (/\ Len(gpu_log') = Len(gpu_log) + 1
     /\ gpu_log'[Len(gpu_log')][1] \in {"request", "device"})
        => \A c \in Range(gpu_assigned_cams) : c \in Range(gpu_assigned_cams')

\* C7: slots are never preempted. With CUDA available, after the requests
\* person, vehicle, intrusion the first two cameras hold the two slots and the
\* intrusion camera got ('cpu', False); and no request, whatever its priority,
\* removes a holder from the table.
C7_NoPreemption ==
    /\ [](cuda /\ PersonVehicleIntrusion
            => /\ gpu_assigned_cams = <<gpu_log[1][2], gpu_log[2][2]>>
               /\ gpu_log[3][4] = FALSE
               /\ device[gpu_log[3][2]] = <<"cpu", FALSE>>)
    /\ [][RequestKeepsHolders]_vars

C7_Witness ==
    /\ cuda /\ PersonVehicleIntrusion
    /\ gpu_log[1][1] = "device" /\ gpu_log[2][1] = "device"
    /\ device[gpu_log[1][2]] = <<"cuda:0", TRUE>>
    /\ device[gpu_log[2][2]] = <<"cuda:0", TRUE>>
    /\ device[gpu_log[3][2]] = <<"cpu", FALSE>>
    /\ ProcessorGpuPriority(gpu_log[3][3]) > ProcessorGpuPriority(gpu_log[1][3])

\* ------------------------------------------------------------------------
\* Properties of the sentinel state machine and the evidence recorder
\* ------------------------------------------------------------------------
\* no _handle_sentinel_mode call is in progress
HandlerDone == wpc \notin {"sr_flag", "stop_put"}

\* the frames processed so far are n >= 1 positive frames followed by negative
\* frames, the last of them later than the cooldown after the last positive
BurstThenQuiet ==
    \E n \in 1..(Len(results) - 1) :
        /\ \A i \in 1..n : results[i].intrusion
        /\ \A i \in (n + 1)..Len(results) : ~results[i].intrusion
        /\ results[Len(results)].at - results[n].at > CooldownSeconds

\* C1: a burst of N >= 1 positive frames followed by negative frames lasting
\* longer than the cooldown has produced exactly one 'detected' alert and then
\* exactly one 'finished' alert, and no other alert.
C1_BurstOnePair ==
    (HandlerDone /\ BurstThenQuiet)
        => AlertStatuses = <<"detected", "finished">>

C1_Witness ==
    /\ HandlerDone /\ BurstThenQuiet
    /\ Len(results) >= 3 /\ results[2].intrusion
    /\ AlertStatuses = <<"detected", "finished">>

\* the open recordings the worker has asked for: STARTs minus STOPs issued
RECURSIVE CountType(_, _)
CountType(s, t) ==
    IF s = <<>> THEN 0
    ELSE (IF Head(s).type = t THEN 1 ELSE 0) + CountType(Tail(s), t)

OpenRecordings == CountType(issued, "START") - CountType(issued, "STOP")

UnmatchedDetected ==
    CountOf(AlertStatuses, "detected") - CountOf(AlertStatuses, "finished")

StartFrameFrameStop ==
    /\ Len(issued) >= 4
    /\ issued[1].type = "START"
    /\ issued[2].type = "FRAME"
    /\ issued[3].type = "FRAME"
    /\ issued[4].type = "STOP"

\* C6: once the recorder has taken Start(f1), Frame(a), Frame(b), Stop, and
\* no encoder open or write failed, f1 holds the frames a, b in that order and
\* no encoder handle is open.
C6_StartFramesStop ==
    (StartFrameFrameStop /\ Len(consumed) = 4 /\ ~enc_fault)
        => /\ file_frames[issued[1].arg] = <<issued[2].arg, issued[3].arg>>
           /\ ffmpeg_process = NoFile

\* C8: after a single positive frame followed only by negative frames there
\* is exactly one 'detected' alert, matched by exactly one 'finished' alert as
\* soon as a negative frame arrives after the cooldown; until then the event
\* is still active, and 'finished' never comes without 'detected'.
SinglePositive ==
    /\ Len(results) >= 1
    /\ results[1].intrusion
    /\ \A i \in 2..Len(results) : ~results[i].intrusion

CooldownSeen ==
    \E i \in 2..Len(results) : results[i].at - results[1].at > CooldownSeconds

C8_SinglePositiveMatched ==
    (HandlerDone /\ SinglePositive)
        => IF CooldownSeen
           THEN AlertStatuses = <<"detected", "finished">>
                /\ ~is_intrusion_active
           ELSE AlertStatuses = <<"detected">> /\ is_intrusion_active

C8_Witness ==
    /\ HandlerDone /\ SinglePositive /\ CooldownSeen
    /\ Len(results) = 3
    /\ results[2].at - results[1].at <= CooldownSeconds
    /\ AlertStatuses = <<"detected", "finished">>

RECURSIVE Controls(_)
Controls(s) ==
    IF s = <<>> THEN <<>>
    ELSE (IF Head(s).type \in {"START", "STOP"} THEN <<Head(s)>> ELSE <<>>)
         \o Controls(Tail(s))

\* C10: no START or STOP is dropped: each one issued is taken by the recorder
\* thread or still waits in the queue, in order, and none is left in the queue
\* when the recorder thread has ended.
C10_ControlsConsumed ==
    /\ Controls(issued) = Controls(consumed) \o Controls(queue)
    /\ rec_pc = "terminated" => Controls(queue) = <<>>

\* ------------------------------------------------------------------------
\* Properties of release_gpu_slot
\* ------------------------------------------------------------------------
\* the step is a release_gpu_slot(c) call
ReleaseStep(c) ==
    /\ Len(gpu_log') = Len(gpu_log) + 1
    /\ gpu_log'[Len(gpu_log')][1] = "release"
    /\ gpu_log'[Len(gpu_log')][2] = c

\* C13: release_gpu_slot for a camera that holds no slot changes neither the
\* assigned list nor the slot counter, and after any release the camera holds
\* no slot, so that a second release of the same camera finds nothing to
\* release and leaves the table as the first one left it.
C13_ReleaseIdempotent ==
    [][\A c \in GpuCams :
          ReleaseStep(c) =>
              /\ c \notin Range(gpu_assigned_cams')
              /\ c \notin Range(gpu_assigned_cams) =>
                     UNCHANGED <<gpu_slots_used, gpu_assigned_cams>>]_vars

\* a camera was granted a slot and then released twice in a row; another
\* camera still holds its slot
C13_Witness ==
    /\ Len(gpu_log) >= 3
    /\ \E i \in 1..(Len(gpu_log) - 2) :
          /\ gpu_log[i][1] \in {"request", "device"}
          /\ gpu_log[i][4]
          /\ gpu_log[i + 1][1] = "release"
          /\ gpu_log[i + 2][1] = "release"
          /\ gpu_log[i + 1][2] = gpu_log[i][2]
          /\ gpu_log[i + 2][2] = gpu_log[i][2]
    /\ gpu_slots_used = Len(gpu_assigned_cams)

\* ------------------------------------------------------------------------
\* Properties of the slot table under the supervisor
\* ------------------------------------------------------------------------
\* no worker of camera c is left: it is not registered and none of its
\* threads is still running
WorkerGone(c) == ~is_camera_active(c) /\ orphans[c] = 0

\* C14: the slot granted to a camera is released when its worker shuts down:
\* a camera without any worker left holds no slot.
C14_SlotReleasedAtShutdown ==
    \A c \in SupCams : WorkerGone(c) => c \notin Range(gpu_assigned_cams)

\* ------------------------------------------------------------------------
\* CameraProcess workers and the GPU manager: every CameraProcess is a
\* multiprocessing.Process, and the GPU manager is the module-level object
\* _gpu_manager_instance, so each worker process works on its own copy of
\* the slot table; GPUManager has no lock
\* ------------------------------------------------------------------------
\* cam_id of the CameraProcess workers
Workers == {1, 2, 3}

\* the slot table of one process
Table(used, cams) == [used |-> used, cams |-> cams]

\* request_gpu_slot on the table t: the value returned
TableRequestResult(t, c) ==
    IF ~cuda THEN FALSE
    ELSE IF c \in Range(t.cams) THEN TRUE
    ELSE t.used < MaxGpuSlots

\* request_gpu_slot on the table t: the table after the call
TableRequest(t, c) ==
    IF cuda /\ c \notin Range(t.cams) /\ t.used < MaxGpuSlots
    THEN Table(t.used + 1, Append(t.cams, c))
    ELSE t

\* workers that were granted a slot so far
GrantedWorkers == {v \in Workers : wk_pc[v] = "ready" /\ wk_device[v][2]}

ProcInit ==
    /\ wk_pc = [w \in Workers |-> "new"]
    /\ wk_table = [w \in Workers |-> Table(0, <<>>)]
    /\ wk_device = [w \in Workers |-> NoDevice]
    /\ wk_free_seen = [w \in Workers |-> MaxGpuSlots]
    /\ wk_peers = [w \in Workers |-> {}]

\* CameraProcess.start(): the new process gets its own copy of the module
\* state, the GPU manager's table included
ProcessStart(w) ==
    /\ wk_pc[w] = "new"
    /\ wk_pc' = [wk_pc EXCEPT ![w] = "running"]
    /\ wk_table' = [wk_table EXCEPT ![w] =
                        Table(gpu_slots_used, gpu_assigned_cams)]
    /\ UNCHANGED <<wk_device, wk_free_seen, wk_peers>>
    /\ UNCHANGED <<gpuVars, workerVars, recVars, supVars, start_log, extRest>>

\* _process_loop, up to the loop: the processor is built in the worker
\* process and asks the GPU manager of that process for a device
ProcessLoopInit(w) ==
    /\ wk_pc[w] = "running"
    /\ wk_pc' = [wk_pc EXCEPT ![w] = "ready"]
    /\ wk_table' = [wk_table EXCEPT ![w] = TableRequest(wk_table[w], w)]
    /\ wk_device' = [wk_device EXCEPT ![w] =
                        RecommendedDevice(TableRequestResult(wk_table[w], w))]
    /\ wk_free_seen' = [wk_free_seen EXCEPT ![w] =
                            MaxGpuSlots - Cardinality(GrantedWorkers)]
    /\ wk_peers' = [wk_peers EXCEPT ![w] =
                        {v \in Workers \ {w} : wk_pc[v] = "running"}]
    /\ UNCHANGED <<gpuVars, workerVars, recVars, supVars, start_log, extRest>>

\* C15: requests to the slot table are serialized: when a worker makes its
\* request with exactly one slot not yet granted while another worker is
\* about to make its own, exactly one of the two is granted.
C15_ConcurrentRequestsSerialized ==
    \A a \in Workers : \A b \in wk_peers[a] :
        (cuda /\ wk_pc[a] = "ready" /\ wk_pc[b] = "ready"
              /\ wk_free_seen[a] = 1 /\ wk_free_seen[b] <= 1)
            => (wk_device[a][2] # wk_device[b][2])

\* ------------------------------------------------------------------------
\* Properties of the sentinel state machine, step by step
\* ------------------------------------------------------------------------
\* the step handles one more frame
FrameStep == Len(results') = Len(results) + 1

\* the result of the frame a FrameStep handles
NewResult == results'[Len(results')]

\* C16: a positive frame handled while the event is active sends no further
\* 'detected' alert and puts no further START on the recorder's queue.
C16_NoDuplicateDetected ==
    [][(FrameStep /\ is_intrusion_active /\ NewResult.intrusion) =>
           /\ CountOf(AlertStatuses', "detected")
                  = CountOf(AlertStatuses, "detected")
           /\ CountType(issued', "START") = CountType(issued, "START")]_vars

\* two positive frames in a row were handled, the second one during the
\* event, and there is one 'detected' alert and one START
C16_Witness ==
    /\ is_intrusion_active /\ HandlerDone
    /\ Len(results) >= 2
    /\ results[Len(results)].intrusion
    /\ results[Len(results) - 1].intrusion
    /\ CountOf(AlertStatuses, "detected") = 1
    /\ CountType(issued, "START") = 1

\* current_time of the most recent positive frame among the results s
RECURSIVE LastPositiveAt(_)
LastPositiveAt(s) ==
    IF s = <<>> THEN 0
    ELSE IF s[Len(s)].intrusion THEN s[Len(s)].at
    ELSE LastPositiveAt(SubSeq(s, 1, Len(s) - 1))

\* C17: the event ends only in the handling of a negative frame that comes
\* more than the cooldown after the most recent positive frame, and every
\* positive frame sets last_intrusion_time to its own time.
C17_EndsOnlyAfterCooldown ==
    [][/\ (is_intrusion_active /\ ~is_intrusion_active') =>
              /\ FrameStep
              /\ ~NewResult.intrusion
              /\ NewResult.at - LastPositiveAt(results) > CooldownSeconds
       /\ (FrameStep /\ NewResult.intrusion) =>
              last_intrusion_time' = NewResult.at]_vars

\* a second positive frame came inside the cooldown window of the first, and
\* a negative frame later than the cooldown after the first one, but not
\* after the second, has left the event active
C17_Witness ==
    /\ is_intrusion_active /\ HandlerDone
    /\ Len(results) = 3
    /\ results[1].intrusion /\ results[2].intrusion /\ ~results[3].intrusion
    /\ results[2].at > results[1].at
    /\ results[3].at - results[1].at > CooldownSeconds
    /\ results[3].at - results[2].at <= CooldownSeconds

\* ------------------------------------------------------------------------
\* Properties of the recorder's encoder handle
\* ------------------------------------------------------------------------
\* evidence files whose encoder is open
OpenFiles == {f \in Files : file_state[f] = "open"}

\* the step takes a command of type t from the recorder's queue
Consumes(t) ==
    /\ Len(consumed') = Len(consumed) + 1
    /\ consumed'[Len(consumed')].type = t

StartLeavesTable ==
    UNCHANGED <<active_cameras, cam_order, orphans, gpu_slots_used,
                gpu_assigned_cams, device>>

\* C19: a start_camera call for a camera that is already active changes
\* neither the worker table nor the existing worker nor its slot, and starts
\* no second thread.
C19_StartActiveNoop ==
    [][\A c \in SupCams, p \in ProcArgs :
          (is_camera_active(c) /\ start_camera_logged(c, p))
              => (StartLeavesTable /\ RunningLoops(c)' = RunningLoops(c))]_vars

\* start_camera was called for a camera that was active, whose thread runs
C19_Witness ==
    \E c \in SupCams :
        /\ start_log = <<c, "active">>
        /\ is_camera_active(c)
        /\ active_cameras[c].alive
        /\ RunningLoops(c) = 1

\* C20: a start_camera call for a camera without configuration, without
\* stream URL or with a processor id that is not registered changes nothing
\* in the worker table and starts no thread; a camera gets registered only
\* by a call that passed every check.
C20_StartFailsOnBadConfig ==
    [][/\ \A c \in SupCams, p \in ProcArgs :
            (/\ ~is_camera_active(c)
             /\ \/ ~cfg[c].exists
                \/ ~cfg[c].rtsp
                \/ StartProcessor(c, p) \notin Procs
             /\ start_camera_logged(c, p))
                => /\ StartLeavesTable
                   /\ ~is_camera_active(c)'
                   /\ start_log'[2] \in {"no_config", "no_processor", "no_url"}
       /\ \A c \in SupCams :
            (~is_camera_active(c) /\ is_camera_active(c)')
                => start_log' = <<c, "started">>]_vars

\* the three configuration faults: the last call failed for that reason and
\* the camera is not registered
C20_Witness ==
    \E c \in SupCams :
        /\ start_log[1] = c
        /\ start_log[2] = "no_url"
        /\ ~is_camera_active(c)
        /\ cfg[c] = CfgNoUrl

\* ------------------------------------------------------------------------
\* CameraProcess._process_loop: the shared preview buffer and the egress
\* encoder; VisionManager._camera_loop: the egress encoder
\* ------------------------------------------------------------------------
\* the rest of the model besides the two loops
coreVars == <<gpuVars, workerVars, recVars, supVars, procVars, start_log,
              moreVars>>

\* the cells of the shared memory region, in the order a copy goes over them
Cells == 1..BufCells

\* the region with every cell written from frame f; frame 0 is the black frame
WholeFrame(f) == [i \in Cells |-> f]

\* the next frame the capture thread hands over
NextFrame(f) == (f % PreviewFrames) + 1

\* no shape: no encoder started, no frame in hand
NoShape == <<0, 0>>

\* CameraProcess.__init__: width=1280, height=720
TargetWidth == 1280

TargetHeight == 720

\* (target_width, target_height)
TargetShape == <<TargetWidth, TargetHeight>>

\* _camera_loop, "Downsample", and _start_ffmpeg_realtime: the largest shape
MaxWorkWidth == 1280

MaxWorkHeight == 720

\* bytes per pixel of a bgr24 frame
Channels == 3

\* the shapes (width, height) the frames of a source come in
SourceShapeList == << <<640, 480>>, <<1920, 1080>>, <<1280, 720>> >>

SourceShapes == Range(SourceShapeList)

\* the shape of frame f as it is captured
FrameShape(f) == SourceShapeList[((f - 1) % Len(SourceShapeList)) + 1]

\* len(frame.tobytes()) of a frame of shape s
Bytes(s) == s[1] * s[2] * Channels

ResizeTo_Keep(s, t) == s

\* the shape of a frame of shape s after "if frame.shape[1] != width or
\* frame.shape[0] != height: frame = cv2.resize(frame, (width, height))"
ResizeTo(s, t) == IF s[1] # t[1] \/ s[2] # t[2] THEN t ELSE s

\* _camera_loop: (work_width, work_height) for the capture's shape
WorkShape(orig) ==
    IF orig[1] > MaxWorkWidth \/ orig[2] > MaxWorkHeight
    THEN <<MaxWorkWidth, MaxWorkHeight>>
    ELSE orig

\* _start_ffmpeg_realtime: the shape given to ffmpeg with -s
RealtimeShape(s) ==
    IF s[1] > MaxWorkWidth \/ s[2] > MaxWorkHeight
    THEN <<MaxWorkWidth, MaxWorkHeight>>
    ELSE s

StreamInit ==
    /\ eg_pc = "start"
    /\ eg_ffmpeg = "none"
    /\ eg_last = "none"
    /\ eg_faults = 0
    /\ frame_id = 0
    /\ shm_buf = WholeFrame(0)
    /\ shm_pos = 0
    /\ eg_declared = NoShape
    /\ eg_shape = NoShape
    /\ rd_last = WholeFrame(0)

\* _start_ffmpeg: the Popen object, or None when Popen raises; a failure
\* counts as an encoder fault
StartFfmpeg(ok) == IF ok THEN "live" ELSE "none"

StartFaults(ok) == IF ok THEN eg_faults ELSE eg_faults + 1

\* _start_ffmpeg: the shape given to ffmpeg with -s
StartDeclared(ok) == IF ok THEN TargetShape ELSE NoShape

\* the outcomes of a start that the fault budget allows
StartOutcomes == IF eg_faults < MaxEncoderFaults THEN BOOLEAN ELSE {TRUE}

\* _process_loop before the loop: ffmpeg_process = self._start_ffmpeg()
EgressStart ==
    /\ eg_pc = "start"
    /\ \E ok \in StartOutcomes :
          /\ eg_ffmpeg' = StartFfmpeg(ok)
          /\ eg_faults' = StartFaults(ok)
          /\ eg_declared' = StartDeclared(ok)
    /\ eg_pc' = "top"
    /\ UNCHANGED <<eg_last, frame_id, shm_buf, shm_pos, eg_shape, rd_last,
                   mlVars, coreVars>>

\* the encoder subprocess of the CameraProcess exits on its own
EncoderDies ==
    /\ eg_ffmpeg = "live"
    /\ eg_pc # "done"
    /\ eg_faults < MaxEncoderFaults
    /\ eg_ffmpeg' = "dead"
    /\ eg_faults' = eg_faults + 1
    /\ UNCHANGED <<eg_pc, eg_last, frame_id, shm_buf, shm_pos, eg_declared,
                   eg_shape, rd_last, mlVars, coreVars>>

\* _process_loop, no frame captured yet: a dead encoder is restarted, a
\* missing one (None) is not
EgressIdle ==
    /\ eg_pc = "top" /\ ~stop_event
    /\ IF eg_ffmpeg = "dead"
       THEN \E ok \in StartOutcomes :
               /\ eg_ffmpeg' = StartFfmpeg(ok)
               /\ eg_faults' = StartFaults(ok)
               /\ eg_declared' = StartDeclared(ok)
       ELSE UNCHANGED <<eg_ffmpeg, eg_faults, eg_declared>>
    /\ UNCHANGED <<eg_pc, eg_last, frame_id, shm_buf, shm_pos, eg_shape,
                   rd_last, mlVars, coreVars>>

\* _process_loop, a frame is there: it is resized to the target shape; when
\* the frame interval has passed it is processed and goes to the shared
\* memory, otherwise straight to the encoder
ProcessLoopFrame ==
    /\ eg_pc = "top" /\ ~stop_event
    /\ frame_id' = NextFrame(frame_id)
    /\ eg_shape' = ResizeTo(FrameShape(frame_id'), TargetShape)
    /\ \E due \in BOOLEAN : eg_pc' = IF due THEN "shm" ELSE "write"
    /\ shm_pos' = 0
    /\ UNCHANGED <<eg_ffmpeg, eg_last, eg_faults, shm_buf, eg_declared,
                   rd_last, mlVars, coreVars>>

\* a copy that writes the first cell only
UpdateSharedMemoryCell_FirstCellOnly ==
    /\ eg_pc = "shm"
    /\ shm_pos < BufCells
    /\ shm_buf' = IF shm_pos = 0 THEN [shm_buf EXCEPT ![1] = frame_id]
                  ELSE shm_buf
    /\ shm_pos' = shm_pos + 1
    /\ eg_pc' = IF shm_pos + 1 = BufCells THEN "write" ELSE "shm"
    /\ UNCHANGED <<eg_ffmpeg, eg_last, eg_faults, frame_id, eg_declared,
                   eg_shape, rd_last, mlVars, coreVars>>

\* _update_shared_memory: shared_frame[:] = frame[:] copies the frame into
\* the region cell after cell, with no lock and no version counter
UpdateSharedMemoryCell ==
    /\ eg_pc = "shm"
    /\ shm_pos < BufCells
    /\ shm_buf' = [shm_buf EXCEPT ![shm_pos + 1] = frame_id]
    /\ shm_pos' = shm_pos + 1
    /\ eg_pc' = IF shm_pos + 1 = BufCells THEN "write" ELSE "shm"
    /\ UNCHANGED <<eg_ffmpeg, eg_last, eg_faults, frame_id, eg_declared,
                   eg_shape, rd_last, mlVars, coreVars>>

\* _process_loop, the egress write: nothing is done when ffmpeg_process is
\* None; a dead encoder is restarted first; the write raises when the
\* encoder has exited since, and the exception is caught
EgressWrite ==
    /\ eg_pc = "write"
    /\ IF eg_ffmpeg = "none"
       THEN /\ eg_last' = "skipped"
            /\ UNCHANGED <<eg_ffmpeg, eg_faults, eg_declared>>
       ELSE \E ok \in (IF eg_ffmpeg = "dead" THEN StartOutcomes ELSE {TRUE}) :
              /\ eg_declared' = IF eg_ffmpeg = "dead" THEN StartDeclared(ok)
                                ELSE eg_declared
              /\ IF ~ok
                 THEN /\ eg_ffmpeg' = "none"
                      /\ eg_faults' = eg_faults + 1
                      /\ eg_last' = "skipped"
                 ELSE \E written \in
                          (IF StartFaults(ok) < MaxEncoderFaults
                           THEN BOOLEAN ELSE {TRUE}) :
                        /\ eg_ffmpeg' = IF written THEN "live" ELSE "dead"
                        /\ eg_faults' = IF written THEN eg_faults
                                        ELSE eg_faults + 1
                        /\ eg_last' = IF written THEN "written" ELSE "dropped"
    /\ eg_pc' = "top"
    /\ UNCHANGED <<frame_id, shm_buf, shm_pos, eg_shape, rd_last, mlVars,
                   coreVars>>

EgressClose_NoTerminate ==
    /\ eg_pc = "top" /\ stop_event
    /\ eg_pc' = "done"
    /\ eg_ffmpeg' = eg_ffmpeg
    /\ UNCHANGED <<eg_last, eg_faults, frame_id, shm_buf, shm_pos, eg_declared,
                   eg_shape, rd_last, mlVars, coreVars>>

\* _process_loop after the loop: the encoder is terminated
EgressClose ==
    /\ eg_pc = "top" /\ stop_event
    /\ eg_pc' = "done"
    /\ eg_ffmpeg' = IF eg_ffmpeg = "none" THEN "none" ELSE "dead"
    /\ UNCHANGED <<eg_last, eg_faults, frame_id, shm_buf, shm_pos, eg_declared,
                   eg_shape, rd_last, mlVars, coreVars>>

\* a reader of the preview: attach by name, copy the region, detach; the copy
\* is taken here in one step
ReaderCopy ==
    /\ eg_pc \notin {"start", "done"}
    /\ rd_last' = shm_buf
    /\ UNCHANGED <<streamVars, mlVars, coreVars>>

\* VisionManager._camera_loop: FFMPEG_RESTART_THRESHOLD
FfmpegRestartThreshold == 10

\* the inner loop is entered with an encoder that _start_ffmpeg_realtime has
\* just found running
MlInitFor(orig) ==
    /\ ml_pc = "loop"
    /\ ml_ffmpeg = "live"
    /\ ml_write_errors = 0
    /\ ml_orig = orig
    /\ ml_declared = RealtimeShape(WorkShape(orig))
    /\ ml_shape = NoShape
    /\ ml_last = "none"

\* the same, for a capture of the largest shape that is not scaled down
MlInit == MlInitFor(<<MaxWorkWidth, MaxWorkHeight>>)

\* the encoder subprocess of the camera thread exits on its own
MlEncoderDies ==
    /\ ml_pc = "loop"
    /\ ml_ffmpeg = "live"
    /\ eg_faults < MaxEncoderFaults
    /\ ml_ffmpeg' = "dead"
    /\ eg_faults' = eg_faults + 1
    /\ UNCHANGED <<eg_pc, eg_ffmpeg, eg_last, frame_id, shm_buf, shm_pos,
                   eg_declared, eg_shape, rd_last, ml_pc, ml_write_errors,
                   ml_orig, ml_declared, ml_shape, ml_last, coreVars>>

\* _start_ffmpeg_realtime called with (work_width, work_height): the shape
\* it declares, None when the encoder does not start
RealtimeDeclared(ok) ==
    IF ok THEN RealtimeShape(WorkShape(ml_orig)) ELSE NoShape

\* _camera_loop, from the resize to "Enviar a FFmpeg", for one frame read:
\* the frame is resized to the work shape; a running encoder is written to,
\* and killed and started again after more than the threshold of
\* BrokenPipeError in a row; an encoder that is None or has exited is started
\* again, and the frame is not written
CameraLoopEgress ==
    /\ ml_pc = "loop"
    /\ ml_shape' = ResizeTo(ml_orig, WorkShape(ml_orig))
    /\ IF ml_ffmpeg = "live"
       THEN \E res \in {"ok", "broken_pipe", "error"} :
              IF res = "ok"
              THEN /\ ml_write_errors' = 0
                   /\ ml_last' = "written"
                   /\ UNCHANGED <<ml_ffmpeg, eg_faults, ml_declared>>
              ELSE IF res = "broken_pipe"
                      /\ ml_write_errors + 1 > FfmpegRestartThreshold
              THEN /\ ml_write_errors' = 0
                   /\ ml_last' = "restarted"
                   /\ \E ok \in StartOutcomes :
                         /\ ml_ffmpeg' = StartFfmpeg(ok)
                         /\ eg_faults' = StartFaults(ok)
                         /\ ml_declared' = RealtimeDeclared(ok)
              ELSE /\ ml_write_errors + 1 <= FfmpegRestartThreshold + 1
                   /\ ml_write_errors' = ml_write_errors + 1
                   /\ ml_last' = "failed"
                   /\ UNCHANGED <<ml_ffmpeg, eg_faults, ml_declared>>
       ELSE /\ \E ok \in StartOutcomes :
                  /\ ml_ffmpeg' = StartFfmpeg(ok)
                  /\ eg_faults' = StartFaults(ok)
                  /\ ml_declared' = RealtimeDeclared(ok)
            /\ ml_last' = "restarted"
            /\ UNCHANGED ml_write_errors
    /\ UNCHANGED <<eg_pc, eg_ffmpeg, eg_last, frame_id, shm_buf, shm_pos,
                   eg_declared, eg_shape, rd_last, ml_pc, ml_orig, coreVars>>

\* _camera_loop: stop_flag is seen, the loop ends and the finally block
\* terminates the encoder
CameraLoopEgressStop ==
    /\ ml_pc = "loop"
    /\ ml_pc' = "stopped"
    /\ ml_ffmpeg' = IF ml_ffmpeg = "none" THEN "none" ELSE "dead"
    /\ UNCHANGED <<streamVars, rd_last, ml_write_errors, ml_orig, ml_declared,
                   ml_shape, ml_last, coreVars>>

\* ------------------------------------------------------------------------
\* Properties of the egress encoder and of the preview buffer
\* ------------------------------------------------------------------------
\* the processing loop of the CameraProcess is running
ProcessLoopRuns == eg_pc \in {"top", "shm", "write"}

\* C11: while a worker runs, an egress encoder that is missing or has exited
\* is eventually replaced by a running one, in the CameraProcess loop and in
\* the camera thread of the VisionManager alike; a failed write drops the
\* frame and the loop goes on.
C11_DeadEncoderReplaced ==
    /\ (ProcessLoopRuns /\ eg_ffmpeg # "live")
           ~> (eg_ffmpeg = "live" \/ ~ProcessLoopRuns)
    /\ (ml_pc = "loop" /\ ml_ffmpeg # "live")
           ~> (ml_ffmpeg = "live" \/ ml_pc # "loop")
    /\ [][(eg_pc = "write" /\ eg_pc' # "write")
               => (eg_pc' = "top" /\ eg_last' \in {"written", "dropped", "skipped"})]_vars

\* C12: every copy a reader takes of the preview buffer is one whole frame:
\* all its cells come from the same update.
C12_ReaderSeesWholeFrame ==
    \A i, j \in Cells : rd_last[i] = rd_last[j]

\* ------------------------------------------------------------------------
\* stop_camera: what is left of the worker when the call returns
\* ------------------------------------------------------------------------
\* C21: when stop_camera returns for an active camera, the camera is no
\* longer active and no loop of that camera is running any more.
C21_StopEndsWorker ==
    [][\A c \in SupCams :
           (is_camera_active(c) /\ stop_camera(c))
               => (~is_camera_active(c) /\ RunningLoops(c) = 0)']_vars

\* ------------------------------------------------------------------------
\* The watchdog's frame-age check
\* ------------------------------------------------------------------------
\* camera c is registered and its last frame is older than the limit
StaleCam(c) ==
    is_camera_active(c)
    /\ clock - active_cameras[c].last_frame_time > StaleSeconds

\* the watchdog's frame-age check sends the camera of its item to
\* _restart_camera_internal
StaleRestartStep ==
    wd_pc = "stale" /\ wd_pc' = "restart"

\* C22: a camera without a frame for more than 30 s is restarted by the
\* watchdog (stopped, then started again with the processor id it had), and
\* a camera with a live worker and a frame newer than 30 s is left alone.
C22_StaleCameraRestarted ==
    /\ \A c \in SupCams :
           StaleCam(c) ~> ((is_camera_active(c) /\ ~StaleCam(c))
                              \/ StoppedByClient(c))
    /\ [][\A c \in SupCams, p \in ProcArgs :
              (~is_camera_active(c) /\ start_camera("watchdog", c, p))
                  => (WorkerLive(c)
                      /\ active_cameras[c].processor_id = wd_data.processor_id)']_vars
    /\ [][StaleRestartStep
              => ~(WorkerLive(Head(wd_items)) /\ ~StaleCam(Head(wd_items)))]_vars

\* ------------------------------------------------------------------------
\* The frame source: CameraProcess._capture_loop and the connection part of
\* VisionManager._camera_loop
\* ------------------------------------------------------------------------
\* the variables of the workers other than those of the two capture loops
notCapRegVars == <<gpuVars, workerVars, recVars, supVars, procVars,
                   start_log, streamVars, rd_last, mlVars, shmVars, detVars>>

notCapVars == <<notCapRegVars, regVars>>

\* frames a source delivers
MaxCaptured == 4

\* VisionManager._camera_loop: MAX_RECONNECT_ATTEMPTS
MaxReconnectAttempts == 5

\* VisionManager._camera_loop: MAX_CONSECUTIVE_ERRORS
MaxConsecutiveErrors == 50

CapInit ==
    /\ cap_pc = "connect"
    /\ cap_last = "none"
    /\ cl_pc = "outer"
    /\ cl_stop_flag = FALSE
    /\ reconnect_attempt = 0
    /\ consecutive_errors = 0
    /\ cl_last = "none"

\* _capture_loop, one turn of the outer while: the loop ends when stop_event
\* is set; otherwise the source is opened. When it does not open, or when
\* the open raises, reconnect_delay is slept and the loop starts over
CaptureConnect ==
    /\ cap_pc = "connect"
    /\ IF stop_event
       THEN /\ cap_pc' = "done"
            /\ UNCHANGED cap_last
       ELSE \E res \in {"opened", "open_failed", "raised"} :
               /\ cap_last' = res
               /\ cap_pc' = IF res = "opened" THEN "read" ELSE "connect"
    /\ UNCHANGED <<cl_pc, cl_stop_flag, reconnect_attempt, consecutive_errors,
                   cl_last, notCapVars>>

\* what a read of the source can give
ReadOutcomes ==
    IF captured < MaxCaptured THEN {"frame", "no_frame", "raised"}
    ELSE {"no_frame", "raised"}

\* _capture_loop, one turn of the inner while up to the with block: a frame
\* is read, to be kept as latest_frame; a failed read, an exception or
\* stop_event leaves the inner loop, the capture is released and
\* reconnect_delay is slept
CaptureRead ==
    /\ cap_pc = "read"
    /\ IF stop_event
       THEN /\ cap_pc' = "connect"
            /\ cap_last' = "stopped"
            /\ UNCHANGED <<cap_frame, captured>>
       ELSE \E res \in ReadOutcomes :
               /\ cap_last' = res
               /\ IF res = "frame"
                  THEN /\ captured' = captured + 1
                       /\ cap_frame' = captured + 1
                       /\ cap_pc' = "publish"
                  ELSE /\ cap_pc' = "connect"
                       /\ UNCHANGED <<cap_frame, captured>>
    /\ UNCHANGED <<cl_pc, cl_stop_flag, reconnect_attempt, consecutive_errors,
                   cl_last, notCapRegVars, lf_lock, latest_frame, lf_published,
                   pl_pc, pl_frame, pl_prev>>

\* the variables of the two capture loops besides cap_pc
capRest == <<cap_last, cl_pc, cl_stop_flag, reconnect_attempt,
             consecutive_errors, cl_last>>

RegInit ==
    /\ lf_lock = "free"
    /\ latest_frame = 0
    /\ cap_frame = 0
    /\ captured = 0
    /\ lf_published = 0
    /\ pl_pc = "top"
    /\ pl_frame = 0
    /\ pl_prev = 0

\* _capture_loop, "with self.latest_frame_lock:" is entered
CaptureLock ==
    /\ cap_pc = "publish"
    /\ lf_lock = "free"
    /\ lf_lock' = "capture"
    /\ cap_pc' = "locked"
    /\ UNCHANGED <<capRest, notCapRegVars, latest_frame, cap_frame, captured,
                   lf_published, pl_pc, pl_frame, pl_prev>>

CapturePublish_KeepFirst ==
    /\ cap_pc = "locked"
    /\ latest_frame' = IF latest_frame = 0 THEN cap_frame ELSE latest_frame
    /\ lf_published' = cap_frame
    /\ lf_lock' = "free"
    /\ cap_pc' = "read"
    /\ UNCHANGED <<capRest, notCapRegVars, cap_frame, captured, pl_pc,
                   pl_frame, pl_prev>>

\* _capture_loop, inside the with block: self.latest_frame = frame, and the
\* lock is released
CapturePublish ==
    /\ cap_pc = "locked"
    /\ latest_frame' = cap_frame
    /\ lf_published' = cap_frame
    /\ lf_lock' = "free"
    /\ cap_pc' = "read"
    /\ UNCHANGED <<capRest, notCapRegVars, cap_frame, captured, pl_pc,
                   pl_frame, pl_prev>>

\* _process_loop, "with self.latest_frame_lock:" is entered
ProcessLoopLock ==
    /\ pl_pc = "top" /\ ~stop_event
    /\ lf_lock = "free"
    /\ lf_lock' = "process"
    /\ pl_pc' = "locked"
    /\ UNCHANGED <<capVars, notCapRegVars, latest_frame, cap_frame, captured,
                   lf_published, pl_frame, pl_prev>>

\* _process_loop, inside the with block: frame stays None when latest_frame
\* is None, and is a copy of latest_frame otherwise; the lock is released
ProcessLoopCopy ==
    /\ pl_pc = "locked"
    /\ pl_frame' = latest_frame
    /\ pl_prev' = pl_frame
    /\ lf_lock' = "free"
    /\ pl_pc' = "top"
    /\ UNCHANGED <<capVars, notCapRegVars, latest_frame, cap_frame, captured,
                   lf_published>>

\* C31: latest_frame is a register of one frame under latest_frame_lock: a
\* captured frame takes the place of the one before it, only one thread at
\* a time is inside a with block, and each read of the processing loop
\* gives the frame published last (None before the first), never an older
\* one than the read before.
C31_ReadGivesLatestFrame ==
    /\ [][(cap_pc = "locked" /\ cap_pc' = "read")
              => latest_frame' = cap_frame]_vars
    /\ [][~(cap_pc = "locked" /\ pl_pc = "locked")']_vars
    /\ [][ProcessLoopCopy => /\ pl_frame' = lf_published
                             /\ pl_frame' >= pl_frame]_vars

\* a read gave frame 3 after the read before gave frame 1: frame 2 was
\* overwritten unread
C31_Witness == pl_frame = 3 /\ pl_prev = 1

\* stop_camera and _restart_camera_internal: camera_data['stop_flag'] = True
CameraLoopSetStop ==
    /\ ~cl_stop_flag
    /\ cl_pc # "ended"
    /\ cl_stop_flag' = TRUE
    /\ UNCHANGED <<cap_pc, cap_last, cl_pc, reconnect_attempt,
                   consecutive_errors, cl_last, notCapVars>>

\* _camera_loop, one turn of the outer while: it ends when stop_flag is set
\* or when reconnect_attempt has reached MAX_RECONNECT_ATTEMPTS. A capture
\* that does not open, an encoder that does not start and an exception each
\* add one to reconnect_attempt; a connection resets it
CameraLoopConnect ==
    /\ cl_pc = "outer"
    /\ IF cl_stop_flag \/ reconnect_attempt >= MaxReconnectAttempts
       THEN /\ cl_pc' = "ended"
            /\ UNCHANGED <<reconnect_attempt, consecutive_errors, cl_last>>
       ELSE \E res \in {"connected", "open_failed", "ffmpeg_failed", "raised"} :
               /\ cl_last' = res
               /\ IF res = "connected"
                  THEN /\ reconnect_attempt' = 0
                       /\ consecutive_errors' = 0
                       /\ cl_pc' = "inner"
                  ELSE /\ reconnect_attempt' = reconnect_attempt + 1
                       /\ cl_pc' = "outer"
                       /\ UNCHANGED consecutive_errors
    /\ UNCHANGED <<cap_pc, cap_last, cl_stop_flag, notCapVars>>

\* _camera_loop, one turn of the inner while: a frame resets
\* consecutive_errors; a failed read adds one to it, as does an exception
\* (raised by the read, or after the reset by the processing of the frame);
\* more than MAX_CONSECUTIVE_ERRORS of them leave the inner loop, as does
\* stop_flag, and the finally block releases the capture
CameraLoopRead ==
    /\ cl_pc = "inner"
    /\ IF cl_stop_flag
       THEN /\ cl_pc' = "outer"
            /\ cl_last' = "stopped"
            /\ UNCHANGED consecutive_errors
       ELSE \E res \in {"frame", "no_frame", "read_raised", "frame_raised"} :
               /\ cl_last' = res
               /\ consecutive_errors' =
                      IF res = "frame" THEN 0
                      ELSE IF res = "frame_raised" THEN 1
                      ELSE consecutive_errors + 1
               /\ cl_pc' = IF consecutive_errors' > MaxConsecutiveErrors
                           THEN "outer" ELSE "inner"
    /\ UNCHANGED <<cap_pc, cap_last, cl_stop_flag, reconnect_attempt,
                   notCapVars>>

\* C23: a capture loop that has not been cancelled never ends: after a
\* failed open and after a read stall it retries, without a limit.
C23_CaptureNeverGivesUp ==
    /\ ~stop_event => cap_pc # "done"
    /\ ~cl_stop_flag => cl_pc # "ended"

\* ------------------------------------------------------------------------
\* The preview buffer read back
\* ------------------------------------------------------------------------
\* the update of the region with the frame in hand is complete
UpdateComplete == shm_pos = BufCells

\* C24: a frame written to the preview buffer and then read through a
\* separate attach comes back unchanged: a copy taken after the update is
\* complete, and before the next one begins, is the frame that was written.
C24_WriteThenReadIdentical ==
    [][(UpdateComplete /\ ReaderCopy) => rd_last' = WholeFrame(frame_id)]_vars

C24_Witness ==
    /\ UpdateComplete
    /\ frame_id = PreviewFrames
    /\ rd_last = WholeFrame(frame_id)

\* ------------------------------------------------------------------------
\* The slot table of the GPU manager
\* ------------------------------------------------------------------------
\* the step is a call of request_gpu_slot itself, for camera c
RequestStepOf(c) ==
    /\ Len(gpu_log') = Len(gpu_log) + 1
    /\ gpu_log'[Len(gpu_log')][1] = "request"
    /\ gpu_log'[Len(gpu_log')][2] = c

\* C25: no camera is twice in the assigned list, and the counter of used
\* slots is the length of that list; a request by a camera that holds a slot
\* returns True and changes neither.
C25_TableConsistent ==
    /\ [](/\ Cardinality(Range(gpu_assigned_cams)) = Len(gpu_assigned_cams)
          /\ gpu_slots_used = Len(gpu_assigned_cams))
    /\ [][\A c \in GpuCams :
              (RequestStepOf(c) /\ c \in Range(gpu_assigned_cams))
                  => /\ gpu_log'[Len(gpu_log')][4] = TRUE
                     /\ UNCHANGED <<gpu_slots_used, gpu_assigned_cams>>]_vars

C25_Witness ==
    /\ Len(gpu_log) = 2
    /\ \A i \in 1..2 : /\ gpu_log[i][1] = "request"
                       /\ gpu_log[i][2] = 1
                       /\ gpu_log[i][4] = TRUE
    /\ gpu_assigned_cams = <<1>>
    /\ gpu_slots_used = 1

\* ------------------------------------------------------------------------
\* The length of the recorder's command queue
\* ------------------------------------------------------------------------
\* C26: the commands waiting in the recorder's queue never exceed a fixed
\* capacity, however slow the recorder is. The queue is built without a
\* capacity; the one tried here is the number of frames of a run, which a
\* queue that grows by one command per frame exceeds, whatever that number.
C26_QueueWithinCapacity == Len(queue) <= MaxFrames

\* ------------------------------------------------------------------------
\* The byte count of the frames written to the egress encoder
\* ------------------------------------------------------------------------
\* C27: every frame written to an egress encoder has the byte count of the
\* shape that encoder was started with, in the CameraProcess loop and in the
\* camera thread of the VisionManager, also after a restart of the encoder.
C27_FrameMatchesDeclaredShape ==
    /\ [][(EgressWrite /\ eg_last' = "written")
              => Bytes(eg_shape) = Bytes(eg_declared')]_vars
    /\ [][(CameraLoopEgress /\ ml_last' = "written")
              => Bytes(ml_shape') = Bytes(ml_declared)]_vars

\* both loops have written a frame that was captured in another shape than
\* the declared one, the CameraProcess loop after an encoder fault
C27_Witness ==
    /\ eg_pc = "top" /\ eg_last = "written"
    /\ FrameShape(frame_id) # eg_declared
    /\ eg_faults > 0
    /\ ml_last = "written"
    /\ ml_orig # ml_declared

\* ------------------------------------------------------------------------
\* The shared memory regions of the preview, over the starts of the
\* CameraProcess of each camera
\* ------------------------------------------------------------------------
\* the variables of the workers other than those of the regions
notShmVars == <<gpuVars, workerVars, recVars, supVars, procVars, start_log,
                streamVars, rd_last, mlVars, capVars, detVars, regVars>>

\* the cameras that have a CameraProcess
ShmCams == {1, 2}

\* starts of the process of one camera
MaxStarts == 2

\* CameraProcess.__init__: shm_name = f"cam_{cam_id}_shm"
ShmName(c) == <<"cam", c, "shm">>

\* CameraProcess.__init__: frame_size = target_width * target_height * 3
FrameSize == TargetWidth * TargetHeight * Channels

\* a region: its name, its size, and the start of the process that made it
Region(c, g) == [name |-> ShmName(c), size |-> FrameSize, gen |-> g]

\* the regions that the name of camera c leads to
NamedRegions(c) == {r \in shm_regions : r.name = ShmName(c)}

WithoutName_Keep(rs, n) == rs

\* unlink(): the name n is removed from the system
WithoutName(rs, n) == {r \in rs : r.name # n}

ShmInit ==
    /\ sw_pc = [c \in ShmCams |-> "idle"]
    /\ sw_gen = [c \in ShmCams |-> 0]
    /\ sw_shm = [c \in ShmCams |-> 0]
    /\ shm_regions = {}
    /\ attach_log = <<0, 0>>

\* the CameraProcess of camera c is started and enters run()
RunBegin(c) ==
    /\ sw_pc[c] = "idle"
    /\ sw_gen[c] < MaxStarts
    /\ sw_gen' = [sw_gen EXCEPT ![c] = @ + 1]
    /\ sw_shm' = [sw_shm EXCEPT ![c] = 0]
    /\ sw_pc' = [sw_pc EXCEPT ![c] = "setup"]
    /\ UNCHANGED <<shm_regions, attach_log, notShmVars>>

\* _setup_shared_memory, first part: a region of that name left by an
\* earlier process is attached, closed and unlinked; when there is none the
\* attach raises and the exception is passed over
SetupUnlinkStale(c) ==
    /\ sw_pc[c] = "setup"
    /\ shm_regions' = WithoutName(shm_regions, ShmName(c))
    /\ sw_pc' = [sw_pc EXCEPT ![c] = "create"]
    /\ UNCHANGED <<sw_gen, sw_shm, attach_log, notShmVars>>

\* _setup_shared_memory, second part: the region is created with
\* size=frame_size and filled with a black frame. The creation raises when
\* the name exists or the system has no room, and self.shm is None then
SetupCreate(c) ==
    /\ sw_pc[c] = "create"
    /\ \E room \in BOOLEAN :
          IF room /\ NamedRegions(c) = {}
          THEN /\ shm_regions' = shm_regions \cup {Region(c, sw_gen[c])}
               /\ sw_shm' = [sw_shm EXCEPT ![c] = sw_gen[c]]
          ELSE /\ sw_shm' = [sw_shm EXCEPT ![c] = 0]
               /\ UNCHANGED shm_regions
    /\ sw_pc' = [sw_pc EXCEPT ![c] = "running"]
    /\ UNCHANGED <<sw_gen, attach_log, notShmVars>>

\* run(), finally: when self.shm is set it is closed and unlinked, by its
\* name; the process ends
RunFinallyUnlink(c) ==
    /\ sw_pc[c] = "running"
    /\ shm_regions' = IF sw_shm[c] # 0
                      THEN WithoutName(shm_regions, ShmName(c))
                      ELSE shm_regions
    /\ sw_shm' = [sw_shm EXCEPT ![c] = 0]
    /\ sw_pc' = [sw_pc EXCEPT ![c] = "idle"]
    /\ UNCHANGED <<sw_gen, attach_log, notShmVars>>

\* the process is killed from outside: nothing of run() is executed any more
ProcessKilled(c) ==
    /\ sw_pc[c] \in {"setup", "create", "running"}
    /\ sw_pc' = [sw_pc EXCEPT ![c] = "idle"]
    /\ sw_shm' = [sw_shm EXCEPT ![c] = 0]
    /\ UNCHANGED <<sw_gen, shm_regions, attach_log, notShmVars>>

\* what an attach by the name of camera c gives: the start of the process
\* that made the region, 0 when the name is not found
AttachResult(c) ==
    IF NamedRegions(c) = {} THEN 0
    ELSE (CHOOSE r \in NamedRegions(c) : TRUE).gen

\* a reader attaches by the name of camera c
ReaderAttach(c) ==
    /\ attach_log' = <<c, AttachResult(c)>>
    /\ attach_log' # attach_log
    /\ UNCHANGED <<sw_pc, sw_gen, sw_shm, shm_regions, notShmVars>>

\* C28: the region of a camera has the name made from its id and the size
\* width x height x 3, and no two regions have the same name. A process that
\* has set up its region has removed any region left under that name before,
\* and a process that ends through run() leaves none: while the process
\* runs, the name leads to the region of this start or to nothing, and that
\* is what a reader attaching then gets.
C28_OneRegionPerCamera ==
    /\ [](\A c \in ShmCams :
            /\ Cardinality(NamedRegions(c)) <= 1
            /\ sw_pc[c] = "create" => NamedRegions(c) = {}
            /\ sw_pc[c] = "running"
                   => NamedRegions(c) \subseteq {Region(c, sw_gen[c])})
    /\ [](\A r \in shm_regions :
            /\ r.size = Bytes(TargetShape)
            /\ \E c \in ShmCams : r.name = ShmName(c))
    /\ [][\A c \in ShmCams :
              RunFinallyUnlink(c) => NamedRegions(c)' = {}]_vars
    /\ [][\A c \in ShmCams :
              (ReaderAttach(c) /\ sw_pc[c] = "running")
                  => attach_log'[2] \in {0, sw_gen[c]}]_vars

\* a reader has attached to the region made by the last start of the process
\* of camera 1, an earlier start being over
C28_Witness ==
    /\ sw_pc[1] = "running"
    /\ sw_gen[1] = MaxStarts
    /\ NamedRegions(1) = {Region(1, MaxStarts)}
    /\ attach_log = <<1, MaxStarts>>

\* ------------------------------------------------------------------------
\* IntrusionDetectorProcessor: frame skipping, the detector call and the
\* detections held between calls
\* ------------------------------------------------------------------------
\* the variables of the workers other than those of the processor
notDetVars == <<gpuVars, workerVars, recVars, supVars, procVars, start_log,
                streamVars, rd_last, mlVars, capVars, shmVars, regVars>>

\* frames given to process_frame
MaxDetFrames == 15

\* __init__: self._detection_interval on the GPU
IntervalGpu == 5

\* __init__: self._detection_interval on the CPU
IntervalCpu == 7

\* __init__: the interval for the device the GPU manager recommended
DetectionInterval(dev) == IF dev[1] = "cpu" THEN IntervalCpu ELSE IntervalGpu

\* the detection lists a call of the detector can give: per box, whether its
\* centre is in the restricted zone
DetLists == {<<>>, <<TRUE>>, <<FALSE>>, <<TRUE, FALSE>>}

\* _run_detection: intruders_count of a detection list
Intruders(dets) == CountOf(dets, TRUE)

\* the result dictionary for a count
DetResult(n) == [intrusion |-> n > 0, count |-> n]

\* {'intrusion': False, 'count': 0}
EmptyResult == DetResult(0)

DetInit ==
    /\ pd_pc = "new"
    /\ pd_device = NoDevice
    /\ pd_model_loaded = FALSE
    /\ pd_frame_counter = 0
    /\ pd_cached = <<>>
    /\ pd_current = 0
    /\ pd_errors = 0
    /\ pd_result = EmptyResult
    /\ pd_call = "none"
    /\ pd_last_inv = [dets |-> <<>>, result |-> EmptyResult]

\* __init__: the device comes from the GPU manager; _init_model loads the
\* model or, after three failures, leaves the processor in degraded mode
ProcessorInit ==
    /\ pd_pc = "new"
    /\ \E granted \in BOOLEAN : pd_device' = RecommendedDevice(granted)
    /\ pd_model_loaded' \in BOOLEAN
    /\ pd_pc' = "ready"
    /\ UNCHANGED <<pd_frame_counter, pd_cached, pd_current, pd_errors,
                   pd_result, pd_call, pd_last_inv, notDetVars>>

\* process_frame, frame is None or empty: the default result is returned
\* before the frame is counted
ProcessEmptyFrame ==
    /\ pd_pc = "ready"
    /\ pd_call # "no_frame"
    /\ pd_result' = EmptyResult
    /\ pd_call' = "no_frame"
    /\ UNCHANGED <<pd_pc, pd_device, pd_model_loaded, pd_frame_counter,
                   pd_cached, pd_current, pd_errors, pd_last_inv, notDetVars>>

\* process_frame: the frame counted is one on which the detector runs
ShouldDetect(n) == n % DetectionInterval(pd_device) = 0

\* process_frame on a frame between two detector calls, or without a model:
\* the result is made from current_intruders
ProcessFrameSkip ==
    /\ pd_pc = "ready"
    /\ pd_frame_counter < MaxDetFrames
    /\ pd_frame_counter' = pd_frame_counter + 1
    /\ ~(ShouldDetect(pd_frame_counter') /\ pd_model_loaded)
    /\ pd_result' = DetResult(pd_current)
    /\ pd_call' = "skipped"
    /\ UNCHANGED <<pd_pc, pd_device, pd_model_loaded, pd_cached, pd_current,
                   pd_errors, pd_last_inv, notDetVars>>

\* process_frame on a frame with a detector call, _run_detection: the resize
\* fails, or model.predict raises, and the default result is returned with
\* the held detections left as they are (predict's failure is counted); or
\* the boxes are read, and the list and the count are replaced
ProcessFrameDetect ==
    /\ pd_pc = "ready"
    /\ pd_frame_counter < MaxDetFrames
    /\ pd_frame_counter' = pd_frame_counter + 1
    /\ ShouldDetect(pd_frame_counter') /\ pd_model_loaded
    /\ \E out \in {"resize_failed", "raised", "detected"} :
          /\ pd_call' = out
          /\ IF out = "detected"
             THEN \E dets \in DetLists :
                     /\ pd_cached' = dets
                     /\ pd_current' = Intruders(dets)
                     /\ pd_result' = DetResult(Intruders(dets))
                     /\ pd_last_inv' = [dets |-> dets,
                                        result |-> DetResult(Intruders(dets))]
                     /\ UNCHANGED pd_errors
             ELSE /\ pd_result' = EmptyResult
                  /\ pd_errors' = IF out = "raised" THEN pd_errors + 1
                                  ELSE pd_errors
                  /\ pd_last_inv' = IF out = "raised"
                                    THEN [dets |-> <<>>, result |-> EmptyResult]
                                    ELSE pd_last_inv
                  /\ UNCHANGED <<pd_cached, pd_current>>
    /\ UNCHANGED <<pd_pc, pd_device, pd_model_loaded, notDetVars>>

\* draw_detections: the boxes drawn on the frame
Rendered == pd_cached

\* the step is a process_frame in which the call of the detector raised
BackendRaised == pd_frame_counter' = pd_frame_counter + 1 /\ pd_call' = "raised"

\* C29: when the call of the detector raises on a frame, the exception is
\* caught and counted, the result of that frame is "no intrusion, count 0",
\* no box is held for rendering, and the processor takes the next frame.
C29_BackendFaultGivesEmpty ==
    [][BackendRaised
           => /\ pd_result' = EmptyResult
              /\ pd_errors' = pd_errors + 1
              /\ pd_pc' = "ready"
              /\ Rendered' = <<>>
              /\ pd_current' = 0]_vars

\* the step is a process_frame that counted its frame
CountedFrame == pd_frame_counter' = pd_frame_counter + 1

\* the step is a process_frame that called the detector
DetectorCalled == CountedFrame /\ pd_call' \in {"raised", "detected"}

\* C30: with a model loaded, the detector is called on the frames whose
\* number is a multiple of N and on no other (N = 5 on 'cuda:0', 7 on
\* 'cpu'); a frame in between reports the result of the most recent call
\* and renders its detections; and a call replaces the held list by its own.
C30_EveryNthFrameCached ==
    /\ [][(CountedFrame /\ pd_model_loaded /\ pd_call' # "resize_failed")
              => (DetectorCalled
                    <=> pd_frame_counter' %
                          (IF pd_device = <<"cuda:0", TRUE>> THEN 5 ELSE 7) = 0)]_vars
    /\ [][(CountedFrame /\ pd_call' = "skipped")
              => /\ pd_result' = pd_last_inv'.result
                 /\ Rendered' = pd_last_inv'.dets]_vars
    /\ [][DetectorCalled => Rendered' = pd_last_inv'.dets]_vars

\* ------------------------------------------------------------------------
\* Shutdown of a worker process
\* ------------------------------------------------------------------------
\* the camera of the worker whose run() is followed from start to end
RunCam == 1

\* run() has gone through its finally block and the process has ended
WorkerEnded ==
    /\ wpc = "terminated"
    /\ eg_pc = "done"
    /\ eg_ffmpeg # "live"
    /\ sw_pc[RunCam] = "idle"
    /\ sw_shm[RunCam] = 0
    /\ NamedRegions(RunCam) = {}
    /\ rec_stop_event
    /\ rec_pc = "terminated"

\* C32: once stop() has set the stop flag of a running worker, the
\* processing loop takes no further frame, and in the end the egress encoder
\* is closed, the preview region is closed and unlinked, the recorder thread
\* is stopped and joined, and the process has ended.
C32_StopEndsWorkerProcess ==
    /\ [][stop_event => frame_id' = frame_id]_vars
    /\ stop_event ~> WorkerEnded

\* a worker that ended after stop(), having started its encoder, put a frame
\* into the preview and created its region
C32_Witness ==
    /\ stop_event /\ WorkerEnded
    /\ eg_last = "written"
    /\ shm_buf = WholeFrame(frame_id) /\ frame_id > 0
    /\ sw_gen[RunCam] = 1

\* ------------------------------------------------------------------------
\* The supervisor's lock
\* ------------------------------------------------------------------------
\* C33: the supervisor does not deadlock: whenever self.lock is held it is
\* released again, so that every start_camera or stop_camera gets the lock
\* and returns, and the watchdog comes back to its sleep again and again,
\* also after a pass in which it restarts a camera.
C33_SupervisorNeverDeadlocks ==
    /\ (lock # "free") ~> (lock = "free")
    /\ []<>(wd_pc = "sleep")

\* ------------------------------------------------------------------------
\* The recorder's idle clean-up
\* ------------------------------------------------------------------------
\* the last START or STOP the worker has put on the queue
LastControl ==
    IF Controls(issued) = <<>> THEN Cmd("NONE", 0)
    ELSE Controls(issued)[Len(Controls(issued))]

\* the recorder holds the encoder of a recording that start_recording has
\* asked for and stop_recording has not been called for
OpenNotStopped ==
    /\ ffmpeg_process # NoFile
    /\ LastControl = Cmd("START", ffmpeg_process)
    /\ wpc # "stop_put"

\* the recorder's queue.get has timed out on an empty queue
IdleStep == rec_pc = "get" /\ queue = <<>> /\ rec_pc' = "check"

\* C34: the idle clean-up the recorder does on an empty queue never closes
\* the encoder of a recording that was started and not stopped, whatever
\* the interleaving of start_recording with the recorder thread.
C34_IdleKeepsOpenRecording ==
    [][(IdleStep /\ OpenNotStopped)
           => /\ ffmpeg_process' = ffmpeg_process
              /\ file_state' = file_state]_vars

\* ------------------------------------------------------------------------
\* The alerts of an event over the life of the worker
\* ------------------------------------------------------------------------
\* C35: every 'detected' alert is in the end matched by one 'finished'
\* alert, also when the worker is stopped during the event, and 'finished'
\* never comes without an unmatched 'detected' before it.
C35_DetectedGetsFinished ==
    /\ [](UnmatchedDetected \in {0, 1})
    /\ (UnmatchedDetected = 1) ~> (UnmatchedDetected = 0)

\* ------------------------------------------------------------------------
\* The order of the commands on the recorder's queue
\* ------------------------------------------------------------------------
\* the command sequence s, read from the state open (a START without its
\* STOP has been read), is made of whole or begun groups START FRAME* STOP
RECURSIVE WellFormed(_, _)
WellFormed(s, open) ==
    IF s = <<>> THEN TRUE
    ELSE IF Head(s).type = "START" THEN ~open /\ WellFormed(Tail(s), TRUE)
    ELSE IF Head(s).type = "STOP" THEN open /\ WellFormed(Tail(s), FALSE)
    ELSE open /\ WellFormed(Tail(s), open)

\* the places of the START commands in the sequence issued
StartPlaces == {i \in 1..Len(issued) : issued[i].type = "START"}

\* by the frames processed, an event is going on after frame k: a positive
\* frame starts or prolongs it, a negative frame later than the cooldown
\* after the last positive frame ends it
RECURSIVE EventActiveAfter(_)
EventActiveAfter(k) ==
    IF k = 0 THEN FALSE
    ELSE IF results[k].intrusion THEN TRUE
    ELSE /\ EventActiveAfter(k - 1)
         /\ results[k].at - LastPositiveAt(SubSeq(results, 1, k - 1))
                <= CooldownSeconds

\* the frames on which an event starts
EventStarts ==
    {n \in 1..Len(results) : results[n].intrusion /\ ~EventActiveAfter(n - 1)}

\* C36: the commands the worker has put on the recorder's queue form
\* (START FRAME* STOP)*, the last group possibly unfinished: START and STOP
\* alternate and no FRAME stands outside a group. Between two handler calls
\* every START is followed at once by the FRAME of the frame on which its
\* event started, and every event start has its START.
C36_CommandsWellFormed ==
    /\ WellFormed(issued, FALSE)
    /\ HandlerDone =>
         /\ \A i \in StartPlaces :
                /\ i < Len(issued)
                /\ issued[i + 1].type = "FRAME"
                /\ issued[i + 1].arg \in EventStarts
                /\ results[issued[i + 1].arg].at = issued[i].arg
         /\ {issued[i + 1].arg : i \in StartPlaces} = EventStarts

\* two events were recorded, the second after the first was stopped
C36_Witness ==
    /\ HandlerDone
    /\ CountType(issued, "START") = 2
    /\ CountType(issued, "STOP") = 1
    /\ CountType(issued, "FRAME") = 2
    /\ EventStarts = {1, 3}

\* ------------------------------------------------------------------------
\* Specifications
\* ------------------------------------------------------------------------
\* the initial state of the parts added to the three subsystems
ExtInit ==
    /\ ProcInit /\ start_log = <<0, "none">> /\ StreamInit /\ MlInit
    /\ CapInit
    /\ ShmInit
    /\ DetInit
    /\ RegInit

\* the worker reads neither the GPU manager's state nor the supervisor's
InitWorker ==
    GpuInit /\ WorkerInit /\ RecInit /\ SupInit /\ ExtInit /\ cuda /\ cfg[2] = CfgOk

NextWorker ==
    \/ Tick
    \/ SentinelNewIntrusion
    \/ StartRecordingFlag
    \/ SentinelStillIntrusion
    \/ SentinelNoIntrusion
    \/ SentinelCooldownOver
    \/ StopRecordingPut
    \/ Stop
    \/ ProcessLoopExit
    \/ RunFinally
    \/ RunJoin
    \/ RecLoopCheck
    \/ RecQueueEmpty
    \/ RecStart
    \/ RecFrame
    \/ RecStop

SpecWorker == InitWorker /\ [][NextWorker]_vars

\* the threads of the worker keep running, and the worker is stopped in the
\* end
FairSpecWorker ==
    /\ SpecWorker
    /\ WF_vars(StartRecordingFlag)
    /\ WF_vars(StopRecordingPut)
    /\ WF_vars(Stop)
    /\ WF_vars(ProcessLoopExit)
    /\ WF_vars(RunFinally)
    /\ WF_vars(RunJoin)
    /\ WF_vars(RecLoopCheck)
    /\ WF_vars(RecQueueEmpty)
    /\ WF_vars(RecStart)
    /\ WF_vars(RecFrame)
    /\ WF_vars(RecStop)

\* the GPU manager does not read the camera configuration
InitGPU ==
    GpuInit /\ WorkerInit /\ RecInit /\ SupInit /\ ExtInit /\ cfg[2] = CfgOk

NextGPU ==
    \/ \E c \in GpuCams, p \in Procs : request_gpu_slot(c, p)
    \/ \E c \in GpuCams : release_gpu_slot(c)
    \/ \E c \in GpuCams, p \in Procs : get_recommended_device(c, p)

SpecGPU == InitGPU /\ [][NextGPU]_vars

InitSup == GpuInit /\ WorkerInit /\ RecInit /\ SupInit /\ ExtInit

NextSup ==
    \/ \E who \in {"api", "watchdog"}, c \in SupCams, p \in ProcArgs :
           start_camera(who, c, p)
    \/ \E c \in SupCams : stop_camera(c)
    \/ \E c \in SupCams : CameraLoopFrame(c)
    \/ \E c \in SupCams : CameraLoopDies(c)
    \/ \E c \in SupCams : CameraLoopStops(c)
    \/ SupTick
    \/ WatchdogBeginPass
    \/ WatchdogCheckThread
    \/ WatchdogCheckStale
    \/ WatchdogRestartDelete
    \/ WatchdogEndPass

SpecSup == InitSup /\ [][NextSup]_vars

\* the watchdog thread and the camera threads keep running
FairSpecSup ==
    /\ SpecSup
    /\ WF_vars(WatchdogBeginPass)
    /\ WF_vars(WatchdogCheckThread)
    /\ WF_vars(WatchdogCheckStale)
    /\ WF_vars(WatchdogRestartDelete)
    /\ WF_vars(WatchdogEndPass)
    /\ WF_vars(\E c \in SupCams, p \in ProcArgs :
                   start_camera("watchdog", c, p))

\* the worker processes do not read the supervisor's state
InitProc ==
    GpuInit /\ WorkerInit /\ RecInit /\ SupInit /\ ExtInit /\ cfg[2] = CfgOk

NextProc ==
    \/ \E w \in Workers : ProcessStart(w)
    \/ \E w \in Workers : ProcessLoopInit(w)

SpecProc == InitProc /\ [][NextProc]_vars

\* the supervisor as its clients see it: start_camera with the outcome of
\* each call recorded, stop_camera, and the camera threads
InitSupApi == GpuInit /\ WorkerInit /\ RecInit /\ SupInit /\ ExtInit

NextSupApi ==
    \/ \E c \in SupCams, p \in ProcArgs : start_camera_logged(c, p)
    \/ \E c \in SupCams : stop_camera(c)
    \/ \E c \in SupCams : CameraLoopFrame(c)
    \/ \E c \in SupCams : CameraLoopDies(c)
    \/ \E c \in SupCams : CameraLoopStops(c)
    \/ SupTick

SpecSupApi == InitSupApi /\ [][NextSupApi]_vars

\* the processing loop of a CameraProcess with its preview buffer and egress
\* encoder, and a reader of the preview
InitPreview == GpuInit /\ WorkerInit /\ RecInit /\ SupInit /\ ExtInit /\ cuda /\ cfg[2] = CfgOk

NextPreview ==
    \/ EgressStart
    \/ EncoderDies
    \/ EgressIdle
    \/ ProcessLoopFrame
    \/ UpdateSharedMemoryCell
    \/ EgressWrite
    \/ Stop
    \/ EgressClose
    \/ ReaderCopy

SpecPreview == InitPreview /\ [][NextPreview]_vars

\* the egress encoders of the two kinds of worker
InitStream == GpuInit /\ WorkerInit /\ RecInit /\ SupInit /\ ExtInit /\ cuda /\ cfg[2] = CfgOk

NextStream ==
    \/ EgressStart
    \/ EncoderDies
    \/ EgressIdle
    \/ ProcessLoopFrame
    \/ UpdateSharedMemoryCell
    \/ EgressWrite
    \/ Stop
    \/ EgressClose
    \/ MlEncoderDies
    \/ CameraLoopEgress
    \/ CameraLoopEgressStop

SpecStream == InitStream /\ [][NextStream]_vars

\* both loops keep running, and frames keep coming, until they are stopped
FairSpecStream ==
    /\ SpecStream
    /\ WF_vars(EgressStart)
    /\ WF_vars(EgressIdle)
    /\ WF_vars(ProcessLoopFrame)
    /\ WF_vars(UpdateSharedMemoryCell)
    /\ WF_vars(EgressWrite)
    /\ WF_vars(EgressClose)
    /\ WF_vars(CameraLoopEgress)

\* the capture loops of the two kinds of worker
InitCapture ==
    GpuInit /\ WorkerInit /\ RecInit /\ SupInit /\ ExtInit /\ cuda /\ cfg[2] = CfgOk

NextCapture ==
    \/ CaptureConnect
    \/ CaptureRead
    \/ CaptureLock
    \/ CapturePublish
    \/ Stop
    \/ CameraLoopSetStop
    \/ CameraLoopConnect
    \/ CameraLoopRead

SpecCapture == InitCapture /\ [][NextCapture]_vars

\* the egress encoders of the two kinds of worker, for every shape of the
\* capture of the camera thread
InitSizes ==
    /\ GpuInit /\ WorkerInit /\ RecInit /\ SupInit
    /\ ProcInit /\ start_log = <<0, "none">> /\ StreamInit /\ CapInit
    /\ ShmInit
    /\ DetInit
    /\ RegInit
    /\ \E orig \in SourceShapes : MlInitFor(orig)
    /\ cuda /\ cfg[2] = CfgOk

SpecSizes == InitSizes /\ [][NextStream]_vars

\* the shared memory regions over the starts and ends of the processes
InitShm ==
    GpuInit /\ WorkerInit /\ RecInit /\ SupInit /\ ExtInit /\ cuda /\ cfg[2] = CfgOk

NextShm ==
    \/ \E c \in ShmCams : RunBegin(c)
    \/ \E c \in ShmCams : SetupUnlinkStale(c)
    \/ \E c \in ShmCams : SetupCreate(c)
    \/ \E c \in ShmCams : RunFinallyUnlink(c)
    \/ \E c \in ShmCams : ProcessKilled(c)
    \/ \E c \in ShmCams : ReaderAttach(c)

SpecShm == InitShm /\ [][NextShm]_vars

\* the processor over the frames it is given
InitDetect ==
    GpuInit /\ WorkerInit /\ RecInit /\ SupInit /\ ExtInit /\ cuda /\ cfg[2] = CfgOk

NextDetect ==
    \/ ProcessorInit
    \/ ProcessEmptyFrame
    \/ ProcessFrameSkip
    \/ ProcessFrameDetect

SpecDetect == InitDetect /\ [][NextDetect]_vars

\* the capture thread and the processing thread of a CameraProcess over
\* latest_frame
InitRegister ==
    GpuInit /\ WorkerInit /\ RecInit /\ SupInit /\ ExtInit /\ cuda /\ cfg[2] = CfgOk

NextRegister ==
    \/ CaptureConnect
    \/ CaptureRead
    \/ CaptureLock
    \/ CapturePublish
    \/ ProcessLoopLock
    \/ ProcessLoopCopy
    \/ Stop

SpecRegister == InitRegister /\ [][NextRegister]_vars

\* run() of one CameraProcess from its start to its end: the set-up of the
\* preview region, the processing loop with its egress encoder, the recorder
\* thread, and the finally block; stop() comes while the process runs
InitShutdown ==
    GpuInit /\ WorkerInit /\ RecInit /\ SupInit /\ ExtInit /\ cuda /\ cfg[2] = CfgOk

NextShutdown ==
    \/ (wpc = "loop" /\ eg_pc = "start" /\ RunBegin(RunCam))
    \/ SetupUnlinkStale(RunCam)
    \/ SetupCreate(RunCam)
    \/ (sw_pc[RunCam] = "running" /\ EgressStart)
    \/ EncoderDies
    \/ EgressIdle
    \/ ProcessLoopFrame
    \/ UpdateSharedMemoryCell
    \/ EgressWrite
    \/ (sw_pc[RunCam] # "idle" /\ Stop)
    \/ EgressClose
    \/ (eg_pc = "done" /\ ProcessLoopExit)
    \/ (wpc = "finally" /\ RunFinallyUnlink(RunCam))
    \/ (sw_pc[RunCam] = "idle" /\ RunFinally)
    \/ RunJoin
    \/ RecLoopCheck
    \/ RecQueueEmpty

SpecShutdown == InitShutdown /\ [][NextShutdown]_vars

\* the threads of the process keep running
FairSpecShutdown ==
    /\ SpecShutdown
    /\ WF_vars(SetupUnlinkStale(RunCam))
    /\ WF_vars(SetupCreate(RunCam))
    /\ WF_vars(sw_pc[RunCam] = "running" /\ EgressStart)
    /\ WF_vars(UpdateSharedMemoryCell)
    /\ WF_vars(EgressWrite)
    /\ WF_vars(EgressClose)
    /\ WF_vars(eg_pc = "done" /\ ProcessLoopExit)
    /\ WF_vars(wpc = "finally" /\ RunFinallyUnlink(RunCam))
    /\ WF_vars(sw_pc[RunCam] = "idle" /\ RunFinally)
    /\ WF_vars(RunJoin)
    /\ WF_vars(RecLoopCheck)
    /\ WF_vars(RecQueueEmpty)

====
